---- MODULE Spec2Model ----
(***************************************************************************)
(* Model of the WebP image optimizer: the bounded-concurrency batch        *)
(* coordinator (BatchProcessor.processDirectory, processImagesInParallel,  *)
(* Semaphore, ProgressReporter), the quality decision engine               *)
(* (ImageContentAnalyzer, DynamicQualityCalculator), the configuration     *)
(* (ConfigManager, BatchProcessor constructor and updateConfig), the       *)
(* output validator (QualityValidator) and the exit code of the CLI.       *)
(*                                                                         *)
(* Files are numbered 1..n in enumeration order.  Each async task of       *)
(* processImagesInParallel is a small process whose position is pc[i].     *)
(* JavaScript runs every continuation to its next await without            *)
(* interleaving, so one action is one such run-to-await stretch.           *)
(***************************************************************************)
EXTENDS Integers, Sequences, FiniteSets, TLC

\* ---------------------------------------------------------------- bounds
MaxFiles == 3
MaxConcurrency == 2

\* ---------------------------------------------------------------- state
VARIABLES
  env,            \* inputs of the run: files on disk, configuration, listeners
  phase,          \* position of processDirectory
  imageFiles,     \* result of scanDirectory (number of enumerated files)
  outputDirEnsured, \* createOutputDirectory has been called
  pc,             \* position of every task of processImagesInParallel
  semaphore,      \* Semaphore: [permits, waitQueue]
  results,        \* processDirectory's local results array
  processedFiles, \* processDirectory's local processedFiles counter
  reporter,       \* ProgressReporter fields
  reason,         \* rejection reason of every task (<< >>: not rejected)
  onErrorCalls,   \* invocations of options.onError, in order
  written,        \* output files written by the encoder
  report,         \* report returned by processDirectory (<< >>: none)
  thrown,         \* error thrown by processDirectory (<< >>: none)
  qin,            \* input of the quality calculator
  qout,           \* output of the quality calculator
  cm,             \* BatchProcessor: configManager.config and what was built from it
  calls,          \* collaborators processImage has called for every file
  vin,            \* input of the quality validator
  vout            \* output of the quality validator

batchVars == <<env, phase, imageFiles, outputDirEnsured, pc, semaphore, results,
               processedFiles, reporter, reason, onErrorCalls, written, report, thrown>>
qualityVars == <<qin, qout>>
vars == <<env, phase, imageFiles, outputDirEnsured, pc, semaphore, results,
          processedFiles, reporter, reason, onErrorCalls, written, report, thrown,
          qin, qout, cm, calls, vin, vout>>

None == "none"

\* ---------------------------------------------------------------- helpers
Min(a, b) == IF a < b THEN a ELSE b
Max(a, b) == IF a > b THEN a ELSE b

RECURSIVE CountStatus(_, _)
CountStatus(rs, st) ==
  IF rs = << >> THEN 0
  ELSE (IF Head(rs).status = st THEN 1 ELSE 0) + CountStatus(Tail(rs), st)

RECURSIVE CountIndex(_, _)
CountIndex(rs, i) ==
  IF rs = << >> THEN 0
  ELSE (IF Head(rs).index = i THEN 1 ELSE 0) + CountIndex(Tail(rs), i)

\* ---------------------------------------------------------------- numbers
\* A JavaScript number is an IEEE-754 double and the validator computes with
\* fractions, so its arithmetic is modelled bit for bit.  A natural number of
\* any size is the sequence of its digits in base 2^15, lowest digit first
\* and no zero digit at the top; a non-negative double is [m, e], standing
\* for m * 2^e, with m odd (or empty, for 0) and at most 53 bits long.
MantissaBits == 53

RECURSIVE BigTrim(_)
BigTrim(a) ==
  IF a = << >> THEN << >>
  ELSE IF a[Len(a)] = 0 THEN BigTrim(SubSeq(a, 1, Len(a) - 1)) ELSE a

RECURSIVE BigFromInt(_)
BigFromInt(n) ==
  IF n = 0 THEN << >> ELSE <<n % 32768>> \o BigFromInt(n \div 32768)

RECURSIVE BigAddCarry(_, _, _)
BigAddCarry(a, b, carry) ==
  IF a = << >> /\ b = << >>
  THEN (IF carry = 0 THEN << >> ELSE <<carry>>)
  ELSE LET x == (IF a = << >> THEN 0 ELSE Head(a))
                + (IF b = << >> THEN 0 ELSE Head(b)) + carry
       IN <<x % 32768>>
          \o BigAddCarry(IF a = << >> THEN << >> ELSE Tail(a),
                         IF b = << >> THEN << >> ELSE Tail(b), x \div 32768)

BigAdd(a, b) == BigAddCarry(a, b, 0)

\* a - b for a >= b
RECURSIVE BigSubBorrow(_, _, _)
BigSubBorrow(a, b, borrow) ==
  IF a = << >> THEN << >>
  ELSE LET x == Head(a) - (IF b = << >> THEN 0 ELSE Head(b)) - borrow
       IN <<x % 32768>>
          \o BigSubBorrow(Tail(a), IF b = << >> THEN << >> ELSE Tail(b),
                          IF x < 0 THEN 1 ELSE 0)

BigSub(a, b) == BigTrim(BigSubBorrow(a, b, 0))

RECURSIVE BigMulSmallCarry(_, _, _)
BigMulSmallCarry(a, k, carry) ==
  IF a = << >> THEN (IF carry = 0 THEN << >> ELSE <<carry>>)
  ELSE LET x == Head(a) * k + carry
       IN <<x % 32768>> \o BigMulSmallCarry(Tail(a), k, x \div 32768)

RECURSIVE BigMul(_, _)
BigMul(a, b) ==
  IF a = << >> \/ b = << >> THEN << >>
  ELSE BigTrim(BigAdd(BigMulSmallCarry(a, Head(b), 0), <<0>> \o BigMul(a, Tail(b))))

\* Quotient and remainder of a by a divisor below 2^16
RECURSIVE BigDivSmall(_, _)
BigDivSmall(a, d) ==
  IF a = << >> THEN [q |-> << >>, r |-> 0]
  ELSE LET hi == BigDivSmall(Tail(a), d)
           cur == hi.r * 32768 + Head(a)
       IN [q |-> <<cur \div d>> \o hi.q, r |-> cur % d]

BigShiftLeft(a, n) ==
  IF a = << >> THEN << >>
  ELSE [i \in 1..(n \div 15) |-> 0] \o BigMulSmallCarry(a, 2^(n % 15), 0)

BigShiftRight(a, n) ==
  IF n \div 15 >= Len(a) THEN << >>
  ELSE BigTrim(BigDivSmall(SubSeq(a, n \div 15 + 1, Len(a)), 2^(n % 15)).q)

BitLength(a) ==
  IF a = << >> THEN 0
  ELSE 15 * (Len(a) - 1)
       + (CHOOSE k \in 1..15 : 2^(k - 1) <= a[Len(a)] /\ a[Len(a)] < 2^k)

BitAt(a, k) ==
  IF k \div 15 + 1 > Len(a) THEN 0
  ELSE (a[k \div 15 + 1] \div 2^(k % 15)) % 2

AnyBitBelow(a, k) ==
  \/ \E i \in 1..Min(k \div 15, Len(a)) : a[i] # 0
  \/ /\ k \div 15 + 1 <= Len(a)
     /\ a[k \div 15 + 1] % 2^(k % 15) # 0

BigLess(a, b) ==
  \/ Len(a) < Len(b)
  \/ /\ Len(a) = Len(b)
     /\ \E i \in 1..Len(a) : /\ a[i] < b[i]
                             /\ \A j \in (i + 1)..Len(a) : a[j] = b[j]

\* The double m * 2^e in the form with an odd m
RECURSIVE Canonical(_)
Canonical(f) ==
  IF f.m = << >> THEN [m |-> << >>, e |-> 0]
  ELSE IF Head(f.m) = 0 THEN Canonical([m |-> Tail(f.m), e |-> f.e + 15])
  ELSE LET z == CHOOSE k \in 0..14 : Head(f.m) % 2^k = 0 /\ (Head(f.m) \div 2^k) % 2 = 1
       IN [m |-> BigShiftRight(f.m, z), e |-> f.e + z]

\* The double nearest to n * 2^e (plus a positive rest below 2^e when
\* sticky), ties to the even mantissa: the rounding of every operation.
\* The operators on doubles take the value of each argument first (x \in {a})
\* and compute on the values.
RoundToDouble(n, e, sticky) ==
  CHOOSE r \in
    {IF len <= MantissaBits THEN Canonical([m |-> n, e |-> e])
     ELSE LET s == len - MantissaBits
              half == BitAt(n, s - 1) = 1
              rest == sticky \/ AnyBitBelow(n, s - 1)
          IN CHOOSE d \in
               {Canonical([m |-> IF half /\ (rest \/ BitAt(q, 0) = 1)
                                 THEN BigAdd(q, <<1>>) ELSE q,
                           e |-> e + s]) : q \in {BigShiftRight(n, s)}} : TRUE
     : len \in {BitLength(n)}} : TRUE

DoubleFromInt(k) == Canonical([m |-> BigFromInt(k), e |-> 0])

\* a / d for a whole number d below 2^16
DoubleDivInt(a, d) ==
  CHOOSE r \in
    {CHOOSE q \in
       {CHOOSE p \in {RoundToDouble(n, x.e - 75, y.r # 0) : n \in {BigTrim(y.q)}} : TRUE
        : y \in {BigDivSmall(BigShiftLeft(x.m, 75), d)}} : TRUE
     : x \in {a}} : TRUE

\* p / q for whole numbers, and the literal written p/q in decimal (0.4 is
\* DoubleFromRatio(4, 10))
DoubleFromRatio(p, q) == DoubleDivInt(DoubleFromInt(p), q)

\* a * b
DoubleMul(a, b) ==
  CHOOSE r \in
    {CHOOSE q \in {RoundToDouble(n, x.e + y.e, FALSE) : n \in {BigMul(x.m, y.m)}} : TRUE
     : x \in {a}, y \in {b}} : TRUE

\* The mantissas of two doubles over their lower exponent
Aligned(x, y) ==
  LET e == Min(x.e, y.e)
  IN [a |-> BigShiftLeft(x.m, x.e - e), b |-> BigShiftLeft(y.m, y.e - e), e |-> e]

\* a + b
DoubleAdd(a, b) ==
  CHOOSE r \in
    {CHOOSE q \in {RoundToDouble(n, al.e, FALSE) : n \in {BigAdd(al.a, al.b)}} : TRUE
     : al \in {Aligned(x, y) : x \in {a}, y \in {b}}} : TRUE

\* a < b
DoubleLess(a, b) ==
  \E al \in {Aligned(x, y) : x \in {a}, y \in {b}} : BigLess(al.a, al.b)

\* a - b for a >= b
DoubleSub(a, b) ==
  CHOOSE r \in
    {CHOOSE q \in {RoundToDouble(n, al.e, FALSE) : n \in {BigSub(al.a, al.b)}} : TRUE
     : al \in {Aligned(x, y) : x \in {a}, y \in {b}}} : TRUE

\* Math.min and Math.max
DoubleMin(a, b) ==
  CHOOSE r \in {IF DoubleLess(y, x) THEN y ELSE x : x \in {a}, y \in {b}} : TRUE
DoubleMax(a, b) ==
  CHOOSE r \in {IF DoubleLess(x, y) THEN y ELSE x : x \in {a}, y \in {b}} : TRUE

\* The double that follows a positive double
DoubleNextUp(a) ==
  CHOOSE r \in
    {Canonical([m |-> BigAdd(BigShiftLeft(x.m, MantissaBits - BitLength(x.m)), <<1>>),
                e |-> x.e - (MantissaBits - BitLength(x.m))]) : x \in {a}} : TRUE

\* ---------------------------------------------------------------- files
\* What the collaborators (format detector, sharp, validator) do with a file.
FileKinds == {"good", "unsupported", "undecodable", "encodeFails", "lowQuality"}

\* Node's EventEmitter.emit('error', ...) throws when no 'error' listener is
\* registered.  The ProgressReporter of a BatchProcessor is a private field
\* created in the constructor; nothing registers a listener on it.
ReporterHasErrorListener == FALSE

\* ---------------------------------------------------------------- config
DefaultConcurrency == 4
DefaultContinueOnError == TRUE

\* DEFAULT_CONFIG, flattened: quality.{photo,graphic,mixed,minimum} and
\* processing.{concurrency,continueOnError}.
DEFAULT_CONFIG ==
  [photo |-> 88, graphic |-> 85, mixed |-> 86, minimum |-> 78,
   concurrency |-> DefaultConcurrency, continueOnError |-> DefaultContinueOnError]

\* ConfigManager.mergeConfig: every key present in updates replaces the base's.
mergeConfig(base, updates) ==
  [k \in DOMAIN base |-> IF k \in DOMAIN updates THEN updates[k] ELSE base[k]]

\* ConfigManager.validateConfig: the error it throws (<< >>: none), checks in
\* the order of the code.
validateConfig(config) ==
  IF config.photo < config.minimum \/ config.photo > 100 THEN <<"photo">>
  ELSE IF config.graphic < config.minimum \/ config.graphic > 100 THEN <<"graphic">>
  ELSE IF config.mixed < config.minimum \/ config.mixed > 100 THEN <<"mixed">>
  ELSE IF config.minimum < 1 \/ config.minimum > 100 THEN <<"minimum">>
  ELSE IF config.concurrency < 1 THEN <<"concurrency">>
  ELSE << >>

\* Partial configurations a caller passes to the constructor.
CustomConfigs ==
  {[concurrency |-> n] : n \in 0..MaxConcurrency}
  \cup {[minimum |-> m] : m \in {0, 60, 101}}
  \cup {[photo |-> 95], [continueOnError |-> FALSE]}

\* new ConfigManager(customConfig): merges, and does not validate.
ConfigManagerNew(customConfig) == mergeConfig(DEFAULT_CONFIG, customConfig)

\* new DynamicQualityCalculator(minimumQuality): stores the value as given.
DynamicQualityCalculatorNew(minimumQuality) == minimumQuality

\* new QualityValidator(minimumQualityThreshold): stores the value as given.
QualityValidatorNew(minimumQualityThreshold) == minimumQualityThreshold

\* The BatchProcessor before its constructor has run.
NotConstructed ==
  [constructed |-> FALSE, config |-> DEFAULT_CONFIG,
   calculatorMinimum |-> DEFAULT_CONFIG.minimum,
   validatorThreshold |-> DEFAULT_CONFIG.minimum, error |-> << >>]

\* new BatchProcessor(config): the calculator and the validator receive the
\* minimum of the merged configuration.
BatchProcessorNew(customConfig) ==
  LET currentConfig == ConfigManagerNew(customConfig)
  IN [constructed |-> TRUE, config |-> currentConfig,
      calculatorMinimum |-> DynamicQualityCalculatorNew(currentConfig.minimum),
      validatorThreshold |-> QualityValidatorNew(currentConfig.minimum),
      error |-> << >>]

\* BatchProcessor.updateConfig -> ConfigManager.updateConfig: the merged
\* configuration is assigned first and validated afterwards; the calculator
\* and the validator are not told.
updateConfig(b, updates) ==
  LET merged == mergeConfig(b.config, updates)
  IN [b EXCEPT !.config = merged, !.error = validateConfig(merged)]

\* ConfigManager.getConcurrency
getConcurrency == cm.config.concurrency

\* Mutant: the flag is read negated.
shouldContinueOnErrorNegated == ~cm.config.continueOnError

\* ConfigManager.shouldContinueOnError
shouldContinueOnError == cm.config.continueOnError

\* ---------------------------------------------------------------- Semaphore
SemaphoreNew(permits) == [permits |-> permits, waitQueue |-> << >>]

\* Mutant: acquire() grants while permits >= 0 (off by one).
SemAcquireOffByOne(s, i) ==
  IF s.permits >= 0
  THEN [sem |-> [s EXCEPT !.permits = @ - 1], granted |-> TRUE]
  ELSE [sem |-> [s EXCEPT !.waitQueue = Append(@, i)], granted |-> FALSE]

\* acquire(): result is the semaphore and whether the caller was resolved
SemAcquire(s, i) ==
  IF s.permits > 0
  THEN [sem |-> [s EXCEPT !.permits = @ - 1], granted |-> TRUE]
  ELSE [sem |-> [s EXCEPT !.waitQueue = Append(@, i)], granted |-> FALSE]

\* Mutant: release() resolves the newest waiter (pop instead of shift).
SemReleaseNewestFirst(s) ==
  LET s1 == [s EXCEPT !.permits = @ + 1]
  IN IF Len(s1.waitQueue) > 0
     THEN [sem |-> [permits |-> s1.permits - 1,
                    waitQueue |-> SubSeq(s1.waitQueue, 1, Len(s1.waitQueue) - 1)],
           woken |-> s1.waitQueue[Len(s1.waitQueue)]]
     ELSE [sem |-> s1, woken |-> 0]

\* release(): result is the semaphore and the waiter that was resolved (0: none)
SemRelease(s) ==
  LET s1 == [s EXCEPT !.permits = @ + 1]
  IN IF Len(s1.waitQueue) > 0
     THEN [sem |-> [permits |-> s1.permits - 1, waitQueue |-> Tail(s1.waitQueue)],
           woken |-> Head(s1.waitQueue)]
     ELSE [sem |-> s1, woken |-> 0]

\* imageFiles.map(async ...): every task runs synchronously up to its
\* `await semaphore.acquire()`, in index order.
RECURSIVE MapAcquire(_, _, _, _)
MapAcquire(s, p, i, n) ==
  IF i > n THEN [sem |-> s, pc |-> p]
  ELSE LET a == SemAcquire(s, i)
       IN MapAcquire(a.sem,
                     [p EXCEPT ![i] = IF a.granted THEN "acquired" ELSE "waiting"],
                     i + 1, n)

\* ---------------------------------------------------------------- quality engine
ContentTypes == {"photo", "graphic", "mixed"}
Strategies == {"high_quality", "balanced", "size_optimized"}

\* Representative characteristics: every threshold of the analyzer and the
\* calculator and one value in every interval they cut.  aspectRatio is in
\* hundredths (0.33 is 33, 3 is 300).
ColorComplexities == {20, 30, 40, 60, 70, 80, 90}
EdgeCounts == {20, 25, 30, 40, 50, 60, 70, 80, 90}
ColorDepths == {6, 7, 8, 10}
AspectRatios == {20, 33, 300, 400}
MinQualityLow == 1
MinQualityHigh == 100
QualityFloor == 50
QualityCeiling == 95

Characteristics ==
  [colorComplexity : ColorComplexities, edgeCount : EdgeCounts,
   hasTransparency : BOOLEAN, colorDepth : ColorDepths, aspectRatio : AspectRatios]

\* Mutant: the transparency flag is read from a field that does not exist
\* (undefined, hence falsy) in both tests.
determineContentTypeNoAlpha(c) ==
  IF FALSE \/ c.edgeCount > 70 \/ (c.colorComplexity < 40 /\ c.colorDepth <= 6)
  THEN "graphic"
  ELSE IF c.colorComplexity > 60 /\ c.edgeCount < 40 /\ ~FALSE /\ c.colorDepth >= 8
  THEN "photo"
  ELSE "mixed"

\* ImageContentAnalyzer.determineContentType
determineContentType(c) ==
  IF c.hasTransparency \/ c.edgeCount > 70 \/ (c.colorComplexity < 40 /\ c.colorDepth <= 6)
  THEN "graphic"
  ELSE IF c.colorComplexity > 60 /\ c.edgeCount < 40 /\ ~c.hasTransparency /\ c.colorDepth >= 8
  THEN "photo"
  ELSE "mixed"

\* ImageContentAnalyzer.determineCompressionStrategy
determineCompressionStrategy(contentType, c) ==
  CASE contentType = "photo" ->
         IF c.colorComplexity > 80 THEN "high_quality" ELSE "balanced"
    [] contentType = "graphic" ->
         IF c.hasTransparency \/ c.edgeCount > 80 THEN "high_quality"
         ELSE IF c.colorComplexity < 30 /\ c.edgeCount < 50 THEN "size_optimized"
         ELSE "balanced"
    [] contentType = "mixed" ->
         IF c.colorComplexity > 70 \/ c.edgeCount > 70 THEN "high_quality" ELSE "balanced"
    [] OTHER -> "balanced"

\* ImageContentAnalyzer.analyzeImageContent
analyzeImageContent(c) ==
  LET contentType == determineContentType(c)
  IN [contentType |-> contentType,
      compressionStrategy |-> determineCompressionStrategy(contentType, c),
      characteristics |-> c]

\* DynamicQualityCalculator.getBaseQuality
getBaseQuality(contentType, strategy) ==
  CASE contentType = "photo" ->
         (CASE strategy = "high_quality" -> 92 [] strategy = "balanced" -> 88
            [] strategy = "size_optimized" -> 82)
    [] contentType = "graphic" ->
         (CASE strategy = "high_quality" -> 90 [] strategy = "balanced" -> 85
            [] strategy = "size_optimized" -> 78)
    [] contentType = "mixed" ->
         (CASE strategy = "high_quality" -> 91 [] strategy = "balanced" -> 86
            [] strategy = "size_optimized" -> 80)

\* Mutant: the adjusted quality is floored at 50 but not capped at 95.
applyQualityAdjustmentsNoCeiling(baseQuality, c, contentType) ==
  LET a1 == IF c.colorComplexity > 80 THEN 3 ELSE IF c.colorComplexity < 30 THEN -2 ELSE 0
      a2 == IF c.edgeCount > 70 THEN 2 ELSE IF c.edgeCount < 30 THEN -1 ELSE 0
      a3 == IF c.hasTransparency THEN 2 ELSE 0
      a4 == IF c.colorDepth >= 10 THEN 2 ELSE IF c.colorDepth <= 6 THEN -1 ELSE 0
      a5 == IF c.aspectRatio > 300 \/ c.aspectRatio < 33 THEN 1 ELSE 0
      a6 == CASE contentType = "photo" -> IF c.edgeCount < 25 THEN -1 ELSE 0
              [] contentType = "graphic" -> IF c.colorComplexity > 60 THEN 2 ELSE 0
              [] contentType = "mixed" ->
                   IF c.colorComplexity > 70 /\ c.edgeCount > 60 THEN 1 ELSE 0
              [] OTHER -> 0
  IN Max(QualityFloor, baseQuality + a1 + a2 + a3 + a4 + a5 + a6)

\* DynamicQualityCalculator.applyQualityAdjustments
applyQualityAdjustments(baseQuality, c, contentType) ==
  LET a1 == IF c.colorComplexity > 80 THEN 3 ELSE IF c.colorComplexity < 30 THEN -2 ELSE 0
      a2 == IF c.edgeCount > 70 THEN 2 ELSE IF c.edgeCount < 30 THEN -1 ELSE 0
      a3 == IF c.hasTransparency THEN 2 ELSE 0
      a4 == IF c.colorDepth >= 10 THEN 2 ELSE IF c.colorDepth <= 6 THEN -1 ELSE 0
      a5 == IF c.aspectRatio > 300 \/ c.aspectRatio < 33 THEN 1 ELSE 0
      a6 == CASE contentType = "photo" -> IF c.edgeCount < 25 THEN -1 ELSE 0
              [] contentType = "graphic" -> IF c.colorComplexity > 60 THEN 2 ELSE 0
              [] contentType = "mixed" ->
                   IF c.colorComplexity > 70 /\ c.edgeCount > 60 THEN 1 ELSE 0
              [] OTHER -> 0
      adjustedQuality == baseQuality + a1 + a2 + a3 + a4 + a5 + a6
  IN Min(QualityCeiling, Max(QualityFloor, adjustedQuality))

\* Mutant: the minimum entry is added only when the final quality is below
\* the minimum, which never happens.
generateQualityReasoningStrict(contentType, strategy, c, finalQuality, minimumQuality) ==
  <<"base">>
  \o (IF c.colorComplexity > 80 THEN <<"high color complexity">>
      ELSE IF c.colorComplexity < 30 THEN <<"low color complexity">> ELSE << >>)
  \o (IF c.edgeCount > 70 THEN <<"high edge content">>
      ELSE IF c.edgeCount < 30 THEN <<"smooth gradients">> ELSE << >>)
  \o (IF c.hasTransparency THEN <<"transparency">> ELSE << >>)
  \o (IF c.colorDepth >= 10 THEN <<"high color depth">>
      ELSE IF c.colorDepth <= 6 THEN <<"limited color depth">> ELSE << >>)
  \o (IF finalQuality < minimumQuality THEN <<"enforced minimum quality threshold">>
      ELSE << >>)

\* DynamicQualityCalculator.generateQualityReasoning: the list of reasons
generateQualityReasoning(contentType, strategy, c, finalQuality, minimumQuality) ==
  <<"base">>
  \o (IF c.colorComplexity > 80 THEN <<"high color complexity">>
      ELSE IF c.colorComplexity < 30 THEN <<"low color complexity">> ELSE << >>)
  \o (IF c.edgeCount > 70 THEN <<"high edge content">>
      ELSE IF c.edgeCount < 30 THEN <<"smooth gradients">> ELSE << >>)
  \o (IF c.hasTransparency THEN <<"transparency">> ELSE << >>)
  \o (IF c.colorDepth >= 10 THEN <<"high color depth">>
      ELSE IF c.colorDepth <= 6 THEN <<"limited color depth">> ELSE << >>)
  \o (IF finalQuality = minimumQuality THEN <<"enforced minimum quality threshold">>
      ELSE << >>)

\* DynamicQualityCalculator.calculateOptimalQuality: the adjusted quality
\* (before the minimum is enforced)
adjustedQualityOf(in) ==
  LET analysis == analyzeImageContent(in.characteristics)
      strategy == IF in.targetStrategy # None THEN in.targetStrategy
                  ELSE analysis.compressionStrategy
      baseQuality == getBaseQuality(analysis.contentType, strategy)
  IN applyQualityAdjustments(baseQuality, analysis.characteristics, analysis.contentType)

\* DynamicQualityCalculator.calculateOptimalQuality
calculateOptimalQuality(in) ==
  LET analysis == analyzeImageContent(in.characteristics)
      strategy == IF in.targetStrategy # None THEN in.targetStrategy
                  ELSE analysis.compressionStrategy
      adjustedQuality == adjustedQualityOf(in)
      finalQuality == Max(in.minimumQuality, adjustedQuality)
  IN [done |-> TRUE,
      quality |-> finalQuality,
      strategy |-> strategy,
      reasoning |-> generateQualityReasoning(analysis.contentType, strategy,
                       analysis.characteristics, finalQuality, in.minimumQuality),
      contentType |-> analysis.contentType]

QInputs ==
  [characteristics : Characteristics,
   minimumQuality : MinQualityLow..MinQualityHigh,
   targetStrategy : Strategies \cup {None}]

\* ---------------------------------------------------------------- quality validator
\* A similarity is written in percent: p stands for the double nearest to
\* p/100 (80 for the literal 0.8).  qualityScore and qualityLoss are doubles.
\* maximumSizeIncrease is written in tenths (12 for 1.2).
MaximumSizeIncreaseTenths == 12
ExcessiveQualityLoss == 30
LowStructuralSimilarity == 80

\* The estimates of the catch blocks, in percent and in points.
DefaultStructuralSimilarity == 80
DefaultColorAccuracy == 85
DefaultSharpnessRetention == 80
DefaultQualityLoss == 20

\* What the file system and the codec make of a file: "ok", "unopenable"
\* (fs.stat answers, sharp cannot decode it) or "missing" (fs.stat throws).
FileStates == {"ok", "unopenable", "missing"}

\* fs.stat(originalPath) or fs.stat(optimizedPath) throws
StatFails(in) == in.original = "missing" \/ in.optimized = "missing"

\* calculateQualityMetrics: metadata() of either image throws
MetadataFails(in) == in.original = "unopenable" \/ in.optimized = "unopenable"

\* calculateStructuralSimilarity: its catch block answers the estimate.
calculateStructuralSimilarity(in) ==
  IF in.similarityFails THEN DefaultStructuralSimilarity ELSE in.structuralSimilarity

\* calculateColorAccuracy: its catch block answers the estimate.
calculateColorAccuracy(in) ==
  IF in.colorFails THEN DefaultColorAccuracy ELSE in.colorAccuracy

\* calculateSharpnessRetention: its catch block answers the estimate.
calculateSharpnessRetention(in) ==
  IF in.sharpnessFails THEN DefaultSharpnessRetention ELSE in.sharpnessRetention

\* The four estimates of the catch block of calculateQualityMetrics.
DefaultMetrics ==
  [qualityLoss |-> DoubleFromInt(DefaultQualityLoss),
   structuralSimilarity |-> DefaultStructuralSimilarity,
   colorAccuracy |-> DefaultColorAccuracy,
   sharpnessRetention |-> DefaultSharpnessRetention]

\* calculateQualityMetrics, lines 691 and 694:
\* Math.max(0, 100 - ((s + c + r) / 3 * 100))
qualityLossOf(structuralSimilarity, colorAccuracy, sharpnessRetention) ==
  LET sum == DoubleAdd(DoubleAdd(DoubleFromRatio(structuralSimilarity, 100),
                                 DoubleFromRatio(colorAccuracy, 100)),
                       DoubleFromRatio(sharpnessRetention, 100))
      kept == DoubleMul(DoubleDivInt(sum, 3), DoubleFromInt(100))
  IN IF DoubleLess(DoubleFromInt(100), kept) THEN DoubleFromInt(0)
     ELSE DoubleMax(DoubleFromInt(0), DoubleSub(DoubleFromInt(100), kept))

\* Mutant: a failure of any comparison step yields the four estimates.
calculateQualityMetricsAllOrNothing(in) ==
  IF MetadataFails(in) \/ in.similarityFails \/ in.colorFails \/ in.sharpnessFails
  THEN DefaultMetrics
  ELSE [qualityLoss |-> qualityLossOf(in.structuralSimilarity, in.colorAccuracy,
                                      in.sharpnessRetention),
        structuralSimilarity |-> in.structuralSimilarity,
        colorAccuracy |-> in.colorAccuracy,
        sharpnessRetention |-> in.sharpnessRetention]

\* QualityValidator.calculateQualityMetrics: when metadata() of either image
\* throws, the catch block answers the four estimates; otherwise the three
\* calculators answer (each with its own catch block) and qualityLoss is
\* computed from their answers.
calculateQualityMetrics(in) ==
  IF MetadataFails(in) THEN DefaultMetrics
  ELSE LET structuralSimilarity == calculateStructuralSimilarity(in)
           colorAccuracy == calculateColorAccuracy(in)
           sharpnessRetention == calculateSharpnessRetention(in)
       IN [qualityLoss |-> qualityLossOf(structuralSimilarity, colorAccuracy,
                                         sharpnessRetention),
           structuralSimilarity |-> structuralSimilarity,
           colorAccuracy |-> colorAccuracy,
           sharpnessRetention |-> sharpnessRetention]

\* Mutant: the weighted score is not scaled by the target quality.
calculateOverallQualityScoreUnscaled(metrics, targetQuality) ==
  LET weightedScore ==
        DoubleMul(
          DoubleAdd(
            DoubleAdd(DoubleMul(DoubleFromRatio(metrics.structuralSimilarity, 100),
                                DoubleFromRatio(4, 10)),
                      DoubleMul(DoubleFromRatio(metrics.colorAccuracy, 100),
                                DoubleFromRatio(3, 10))),
            DoubleMul(DoubleFromRatio(metrics.sharpnessRetention, 100),
                      DoubleFromRatio(3, 10))),
          DoubleFromInt(100))
  IN DoubleMin(DoubleFromInt(100), DoubleMax(DoubleFromInt(0), weightedScore))

\* QualityValidator.calculateOverallQualityScore:
\*   weightedScore = (s * 0.4 + c * 0.3 + r * 0.3) * 100
\*   adjustedScore = weightedScore * (targetQuality / 100)
\*   Math.min(100, Math.max(0, adjustedScore))
\* with the operations in the order JavaScript evaluates them.
calculateOverallQualityScore(metrics, targetQuality) ==
  LET weightedScore ==
        DoubleMul(
          DoubleAdd(
            DoubleAdd(DoubleMul(DoubleFromRatio(metrics.structuralSimilarity, 100),
                                DoubleFromRatio(4, 10)),
                      DoubleMul(DoubleFromRatio(metrics.colorAccuracy, 100),
                                DoubleFromRatio(3, 10))),
            DoubleMul(DoubleFromRatio(metrics.sharpnessRetention, 100),
                      DoubleFromRatio(3, 10))),
          DoubleFromInt(100))
      targetAdjustment == DoubleFromRatio(targetQuality, 100)
      adjustedScore == DoubleMul(weightedScore, targetAdjustment)
  IN DoubleMin(DoubleFromInt(100), DoubleMax(DoubleFromInt(0), adjustedScore))

\* validateFileIntegrity(optimizedPath): the file exists (fs.stat answered),
\* and metadata() throws on a file sharp cannot decode.
validateFileIntegrity(in) == in.optimized = "ok"

\* The result built by the catch block of validateOutputQuality.
ValidationFailedResult ==
  [done |-> TRUE, raised |-> FALSE, isValid |-> FALSE, qualityScore |-> DoubleFromInt(0),
   sizeReduction |-> 0, meetsThreshold |-> FALSE, issues |-> <<"Validation failed">>,
   originalSize |-> 0, optimizedSize |-> 0, qualityLoss |-> DoubleFromInt(100),
   structuralSimilarity |-> 0, minimumQualityThreshold |-> 0]

\* The outcome of a call whose error reaches the caller.
Raised ==
  [done |-> TRUE, raised |-> TRUE, isValid |-> FALSE, qualityScore |-> DoubleFromInt(0),
   sizeReduction |-> 0, meetsThreshold |-> FALSE, issues |-> << >>,
   originalSize |-> 0, optimizedSize |-> 0, qualityLoss |-> DoubleFromInt(0),
   structuralSimilarity |-> 0, minimumQualityThreshold |-> 0]

\* Mutant: no catch block around the body; a failing fs.stat reaches the
\* caller.
validateOutputQualitySizesNoCatch(in) ==
  IF StatFails(in) THEN Raised
  ELSE [done |-> FALSE, awaiting |-> "calculateQualityMetrics",
        issues |->
          IF DoubleLess(DoubleMul(DoubleFromInt(in.originalSize),
                                  DoubleFromRatio(in.maximumSizeIncrease, 10)),
                        DoubleFromInt(in.optimizedSize))
          THEN <<"larger than original">> ELSE << >>,
        sizeReduction |-> ((in.originalSize - in.optimizedSize) * 100) \div in.originalSize,
        originalSize |-> in.originalSize, optimizedSize |-> in.optimizedSize]

\* validateOutputQuality, lines 567-586 and the catch block: fs.stat of
\* either file throws inside the try block, whose catch block returns a
\* result; otherwise the sizes are compared, with this.maximumSizeIncrease
\* as it is in this turn, and calculateQualityMetrics is awaited.
validateOutputQualitySizes(in) ==
  IF StatFails(in) THEN ValidationFailedResult
  ELSE [done |-> FALSE, awaiting |-> "calculateQualityMetrics",
        issues |->
          IF DoubleLess(DoubleMul(DoubleFromInt(in.originalSize),
                                  DoubleFromRatio(in.maximumSizeIncrease, 10)),
                        DoubleFromInt(in.optimizedSize))
          THEN <<"larger than original">> ELSE << >>,
        sizeReduction |-> ((in.originalSize - in.optimizedSize) * 100) \div in.originalSize,
        originalSize |-> in.originalSize, optimizedSize |-> in.optimizedSize]

\* validateOutputQuality, lines 586-606: the metrics have been computed; the
\* score is compared with this.minimumQualityThreshold as it is in this
\* turn, and validateFileIntegrity is awaited.  minimumQualityThreshold is
\* the value that was read.
validateOutputQualityScore(in, sofar) ==
  LET qualityMetrics == calculateQualityMetrics(in)
      qualityScore == calculateOverallQualityScore(qualityMetrics, in.targetQuality)
      meetsThreshold ==
        ~DoubleLess(qualityScore, DoubleFromInt(in.minimumQualityThreshold))
  IN [done |-> FALSE, awaiting |-> "validateFileIntegrity",
      issues |->
        sofar.issues
        \o (IF ~meetsThreshold THEN <<"below threshold">> ELSE << >>)
        \o (IF DoubleLess(DoubleFromInt(ExcessiveQualityLoss), qualityMetrics.qualityLoss)
            THEN <<"excessive quality loss">> ELSE << >>)
        \o (IF qualityMetrics.structuralSimilarity < LowStructuralSimilarity
            THEN <<"low structural similarity">> ELSE << >>),
      sizeReduction |-> sofar.sizeReduction,
      originalSize |-> sofar.originalSize, optimizedSize |-> sofar.optimizedSize,
      qualityScore |-> qualityScore, meetsThreshold |-> meetsThreshold,
      qualityLoss |-> qualityMetrics.qualityLoss,
      structuralSimilarity |-> qualityMetrics.structuralSimilarity,
      minimumQualityThreshold |-> in.minimumQualityThreshold]

\* validateOutputQuality, lines 606-626: the integrity check has answered
\* and the result is returned.
validateOutputQualityIntegrity(in, sofar) ==
  LET issues == sofar.issues
                \o (IF ~validateFileIntegrity(in) THEN <<"file integrity issue">>
                    ELSE << >>)
  IN [done |-> TRUE, raised |-> FALSE, isValid |-> issues = << >>,
      qualityScore |-> sofar.qualityScore, sizeReduction |-> sofar.sizeReduction,
      meetsThreshold |-> sofar.meetsThreshold, issues |-> issues,
      originalSize |-> sofar.originalSize, optimizedSize |-> sofar.optimizedSize,
      qualityLoss |-> sofar.qualityLoss,
      structuralSimilarity |-> sofar.structuralSimilarity,
      minimumQualityThreshold |-> sofar.minimumQualityThreshold]

\* QualityValidator.validateOutputQuality, when nothing changes the
\* thresholds while it runs.
validateOutputQuality(in) ==
  LET sizes == validateOutputQualitySizes(in)
  IN IF sizes.done THEN sizes
     ELSE validateOutputQualityIntegrity(in, validateOutputQualityScore(in, sizes))

\* ---------------------------------------------------------------- processImage
\* processImage, lines 614-616: the quality handed to the encoder is the
\* result of the calculator the constructor built; config.quality is not read.
OptimalQualityInput(b, c) ==
  [characteristics |-> c, minimumQuality |-> b.calculatorMinimum,
   targetStrategy |-> None]

\* The picture in the files of these runs, as the analyzer measures it: a
\* photograph (balanced strategy, base quality 88, no adjustment).
FileCharacteristics(kind) ==
  [colorComplexity |-> 70, edgeCount |-> 30, hasTransparency |-> FALSE,
   colorDepth |-> 8, aspectRatio |-> 150]

\* The minimum a BatchProcessor hands to its calculator and its validator:
\* the one of the configuration its constructor merged.
ConstructedMinimums ==
  {ConfigManagerNew(customConfig).minimum : customConfig \in CustomConfigs}
    \cup {DEFAULT_CONFIG.minimum}

\* calculateOptimalQuality is pure: its decision for each kind of file under
\* each minimum of the calculator.
QualityDecisions ==
  [kind \in FileKinds, minimum \in ConstructedMinimums |->
     calculateOptimalQuality(
       OptimalQualityInput([calculatorMinimum |-> minimum],
                           FileCharacteristics(kind)))]

\* processImage: optimalQuality, the quality of the calculator's decision
OptimalQuality(kind) == QualityDecisions[kind, cm.calculatorMinimum].quality

\* Sizes in the result of a successful convertToWebP, by kind of file.
EncodedSizes(kind) ==
  IF kind = "lowQuality" THEN [originalSize |-> 10, optimizedSize |-> 2]
  ELSE [originalSize |-> 10, optimizedSize |-> 4]

\* What the comparison of the output with the original measures, in
\* percent: the output of a lowQuality file keeps the structure and loses
\* half of colour and sharpness, every other output equals its original.
OutputMetrics(kind) ==
  IF kind = "lowQuality"
  THEN [structuralSimilarity |-> 80, colorAccuracy |-> 50, sharpnessRetention |-> 50]
  ELSE [structuralSimilarity |-> 100, colorAccuracy |-> 100, sharpnessRetention |-> 100]

\* processImage: the arguments of validateOutputQuality(imagePath,
\* outputPath, optimalQuality) on a validator built with this threshold.
ValidatorInput(kind, optimalQuality, threshold) ==
  [original |-> "ok", optimized |-> "ok",
   originalSize |-> EncodedSizes(kind).originalSize,
   optimizedSize |-> EncodedSizes(kind).optimizedSize,
   similarityFails |-> FALSE, colorFails |-> FALSE, sharpnessFails |-> FALSE,
   structuralSimilarity |-> OutputMetrics(kind).structuralSimilarity,
   colorAccuracy |-> OutputMetrics(kind).colorAccuracy,
   sharpnessRetention |-> OutputMetrics(kind).sharpnessRetention,
   targetQuality |-> optimalQuality,
   minimumQualityThreshold |-> threshold,
   maximumSizeIncrease |-> MaximumSizeIncreaseTenths]

\* validateOutputQuality is pure: its answer for the output of each kind of
\* file, under each minimum of the calculator and threshold of the validator.
QualityValidations ==
  [kind \in FileKinds, minimum \in ConstructedMinimums,
   threshold \in ConstructedMinimums |->
     validateOutputQuality(
       ValidatorInput(kind, QualityDecisions[kind, minimum].quality, threshold))]

\* processImage: qualityValidation, the answer of the validator the
\* constructor built for the quality the calculator chose.
QualityValidation(kind) ==
  QualityValidations[kind, cm.calculatorMinimum, cm.validatorThreshold]

\* sharp's webp({ quality }): a quality outside 1..100 is rejected with an
\* error before anything is encoded.
CodecAcceptsQuality(quality) == quality \in 1..100

\* What validateImageFile and the analysis of calculateOptimalQuality answer
\* for a file of this kind.
KindFacts(kind) ==
  [formatValid  |-> kind # "unsupported",   \* validateImageFile().isValid
   analysisOk   |-> kind # "undecodable"]   \* calculateOptimalQuality does not throw

\* WebPConverter.convertToWebP: the result it returns (it never throws; an
\* error is caught and becomes a failed result with sizes 0, and no output
\* file exists then).  It validates the input itself, reads the metadata of
\* the image, and only then hands the quality to the codec.
convertToWebP(kind, quality) ==
  LET f == KindFacts(kind)
      failed(errorMessage) ==
        [status |-> "failed", originalSize |-> 0, optimizedSize |-> 0,
         compressionRatio |-> 0, errorMessage |-> errorMessage]
  IN IF ~f.formatValid THEN failed(<<"Invalid image file">>)
     ELSE IF ~f.analysisOk \/ kind = "encodeFails" \/ ~CodecAcceptsQuality(quality)
          THEN failed(<<"conversion error">>)
     ELSE LET z == EncodedSizes(kind)
          IN [status |-> "success", originalSize |-> z.originalSize,
              optimizedSize |-> z.optimizedSize,
              compressionRatio |->
                ((z.originalSize - z.optimizedSize) * 100) \div z.originalSize,
              errorMessage |-> << >>]

\* processImage: convertToWebP, called with the quality the calculator
\* chose, returns success.
EncodeOk(kind) == convertToWebP(kind, OptimalQuality(kind)).status = "success"

\* BatchProcessor.processImage: the status of the result it resolves to.
ProcessImage(kind) ==
  LET f == KindFacts(kind)
  IN IF ~f.formatValid THEN "skipped"       \* early return, nothing else runs
     ELSE IF ~f.analysisOk THEN "failed"    \* caught by the catch block
     ELSE IF ~EncodeOk(kind) THEN "failed"  \* result of convertToWebP
     ELSE IF ~QualityValidation(kind).isValid
          THEN "failed"                     \* success flipped to failed
     ELSE "success"

\* Mutant: no early return after the format validation, and the output is
\* validated whatever the encoder answered.
PipelineCallsStraight(kind) ==
  LET f == KindFacts(kind)
  IN IF ~f.formatValid \/ f.analysisOk
     THEN <<"validateImageFile", "calculateOptimalQuality", "convertToWebP",
            "validateOutputQuality">>
     ELSE <<"validateImageFile", "calculateOptimalQuality">>

\* BatchProcessor.processImage: the collaborators it calls, in order.  The
\* early return after a failed format validation and the throw of the
\* analysis end the list; validateOutputQuality is inside the
\* `result.status === 'success'` branch.
PipelineCalls(kind) ==
  LET f == KindFacts(kind)
  IN IF ~f.formatValid THEN <<"validateImageFile">>
     ELSE IF ~f.analysisOk THEN <<"validateImageFile", "calculateOptimalQuality">>
     ELSE IF ~EncodeOk(kind)
          THEN <<"validateImageFile", "calculateOptimalQuality", "convertToWebP">>
     ELSE <<"validateImageFile", "calculateOptimalQuality", "convertToWebP",
            "validateOutputQuality">>

\* qualityValidation.issues for the output of a file of this kind
QualityIssues(kind) == QualityValidation(kind).issues

\* issues.join(', ') behind the fixed prefix: the message as the list of
\* its parts.
QualityValidationMessage(issues) == <<"Quality validation failed">> \o issues

\* The result object built by the early return and by the catch blocks.
EmptyResult(status, errorMessage) ==
  [status |-> status, originalSize |-> 0, optimizedSize |-> 0,
   compressionRatio |-> 0, errorMessage |-> errorMessage]

\* Mutant: a failed quality validation leaves the status at success.
processImageResultIgnoresValidation(kind) ==
  LET f == KindFacts(kind)
  IN IF ~f.formatValid THEN EmptyResult("skipped", <<"Invalid image file">>)
     ELSE IF ~f.analysisOk THEN EmptyResult("failed", <<"analysis error">>)
     ELSE convertToWebP(kind, OptimalQuality(kind))

\* BatchProcessor.processImage: the result it resolves to.
processImageResult(kind) ==
  LET f == KindFacts(kind)
  IN IF ~f.formatValid THEN EmptyResult("skipped", <<"Invalid image file">>)
     ELSE IF ~f.analysisOk THEN EmptyResult("failed", <<"analysis error">>)
     ELSE LET result == convertToWebP(kind, OptimalQuality(kind))
          IN IF result.status = "success"
             THEN LET qualityValidation == QualityValidation(kind)
                  IN IF ~qualityValidation.isValid
                     THEN [result EXCEPT !.status = "failed",
                             !.errorMessage =
                               QualityValidationMessage(qualityValidation.issues)]
                     ELSE result
             ELSE result

\* The encoder wrote the output file; a failed validation leaves it in place.
WritesOutput(kind) ==
  LET f == KindFacts(kind) IN f.formatValid /\ f.analysisOk /\ EncodeOk(kind)

\* ---------------------------------------------------------------- reporter
\* DEFAULT_PROGRESS_CONFIG: the fields updateProgress reads.  updateInterval
\* is in milliseconds.
DEFAULT_PROGRESS_CONFIG == [enableConsoleOutput |-> TRUE, updateInterval |-> 100]

\* new ProgressReporter(config)
ProgressReporterNew(config) ==
  [isActive |-> FALSE, processedFiles |-> 0, totalFiles |-> 0, results |-> << >>,
   config |-> mergeConfig(DEFAULT_PROGRESS_CONFIG, config)]

\* The reporter the constructor of BatchProcessor creates.
ReporterInit == ProgressReporterNew(<< >>)

\* ProgressReporter.updateConfig
ProgressReporterUpdateConfig(r, updates) ==
  [r EXCEPT !.config = mergeConfig(r.config, updates)]

\* ProgressReporter.start
ReporterStart(r, totalFiles) ==
  [r EXCEPT !.isActive = TRUE, !.processedFiles = 0, !.totalFiles = totalFiles,
            !.results = << >>]

\* generateDetailedProgress and displayConsoleProgress:
\*   percentage = Math.round((processedFiles / totalFiles) * 100)
\*   filledLength = Math.round((percentage / 100) * 30)
\*   '...'.repeat(filledLength) + '...'.repeat(30 - filledLength)
\* String.prototype.repeat throws a RangeError for a negative or an infinite
\* count: when filledLength is above 30, and when totalFiles is 0 (the
\* percentage of 0 of 0 is NaN, which repeat takes for 0).
ProgressBarThrows(processed, total) ==
  IF total = 0 THEN processed # 0
  ELSE LET percentage == (200 * processed + total) \div (2 * total)
           filledLength == (3 * percentage + 5) \div 10
       IN filledLength > 30

\* Mutant: the result is put in front of the list (unshift instead of push).
UpdateProgressInFront(r, result, shouldUpdate) ==
  IF ~r.isActive THEN [reporter |-> r, shown |-> FALSE, threw |-> FALSE]
  ELSE LET counted == [r EXCEPT !.processedFiles = @ + 1, !.results = <<result>> \o @]
           shown == shouldUpdate \/ counted.processedFiles = counted.totalFiles
       IN [reporter |-> counted, shown |-> shown,
           threw |-> /\ shown
                     /\ counted.config.enableConsoleOutput
                     /\ ProgressBarThrows(counted.processedFiles, counted.totalFiles)]

\* ProgressReporter.updateProgress.  shouldUpdate is the outcome of
\* (Date.now() - lastUpdateTime) >= config.updateInterval.  The result is the
\* reporter after the call, whether the progress was shown (displayed and
\* emitted), and whether displayConsoleProgress threw out of the call: the
\* count and the result list are updated before it runs, and the 'progress'
\* event is emitted after it.
UpdateProgress(r, result, shouldUpdate) ==
  IF ~r.isActive THEN [reporter |-> r, shown |-> FALSE, threw |-> FALSE]
  ELSE LET counted == [r EXCEPT !.processedFiles = @ + 1, !.results = Append(@, result)]
           shown == shouldUpdate \/ counted.processedFiles = counted.totalFiles
       IN [reporter |-> counted, shown |-> shown,
           threw |-> /\ shown
                     /\ counted.config.enableConsoleOutput
                     /\ ProgressBarThrows(counted.processedFiles, counted.totalFiles)]

\* The outcomes of (Date.now() - lastUpdateTime) >= config.updateInterval
\* that a call of updateProgress can see: the clock is not part of the state
\* of a batch, and no time is negative.
ShouldUpdates(r) == IF r.config.updateInterval <= 0 THEN {TRUE} ELSE BOOLEAN

\* ProgressReporter.reportError: TRUE when the emit of 'error' throws
ReportErrorThrows(r) == r.isActive /\ ~ReporterHasErrorListener

\* results.filter(r => r.status === st)
FilterStatus(rs, st) == SelectSeq(rs, LAMBDA r : r.status = st)

\* reduce: the sum of originalSize - optimizedSize
RECURSIVE SumSizeReduction(_)
SumSizeReduction(rs) ==
  IF rs = << >> THEN 0
  ELSE (Head(rs).originalSize - Head(rs).optimizedSize) + SumSizeReduction(Tail(rs))

\* reduce: the sum of compressionRatio
RECURSIVE SumCompressionRatio(_)
SumCompressionRatio(rs) ==
  IF rs = << >> THEN 0
  ELSE Head(rs).compressionRatio + SumCompressionRatio(Tail(rs))

\* The average of the compression ratios, rounded down to an integer.
AverageCompressionRatio(rs) ==
  IF Len(rs) > 0 THEN SumCompressionRatio(rs) \div Len(rs) ELSE 0

\* Mutant: totalImages adds the two counters, leaving skipped items out.
GenerateFinalReportSumOfCounters(r) ==
  [totalImages |-> CountStatus(r.results, "success") + CountStatus(r.results, "failed"),
   successfulConversions |-> CountStatus(r.results, "success"),
   failedConversions |-> CountStatus(r.results, "failed"),
   totalSizeReduction |-> SumSizeReduction(FilterStatus(r.results, "success")),
   averageCompressionRatio |->
     AverageCompressionRatio(FilterStatus(r.results, "success")),
   results |-> r.results]

\* ProgressReporter.generateFinalReport
GenerateFinalReport(r) ==
  [totalImages |-> Len(r.results),
   successfulConversions |-> CountStatus(r.results, "success"),
   failedConversions |-> CountStatus(r.results, "failed"),
   totalSizeReduction |-> SumSizeReduction(FilterStatus(r.results, "success")),
   averageCompressionRatio |->
     AverageCompressionRatio(FilterStatus(r.results, "success")),
   results |-> r.results]

\* ---------------------------------------------------------------- errors
\* path is the directory an error message ends with ("No supported image
\* files found in <source>", "Source directory does not exist: <source>",
\* "Output directory contains files that might be overwritten: <output>"),
\* None when the message names no directory.
ItemError(i) == [kind |-> "item", item |-> i, path |-> None]
UnhandledError(i) == [kind |-> "unhandled", item |-> i, path |-> None]

\* The RangeError ("Invalid count value") that leaves updateProgress
RangeError(i) == [kind |-> "rangeError", item |-> i, path |-> None]
NoFilesError == [kind |-> "noFiles", item |-> 0, path |-> env.sourceDirectory]
OptionsError ==
  [kind |-> "options", item |-> 0,
   path |-> IF ~env.sourceExists THEN env.sourceDirectory ELSE env.outputDirectory]

\* ProgressReporter.complete on a reporter that is not active
ReporterInactiveError == [kind |-> "reporterInactive", item |-> 0, path |-> None]

\* catch block of processDirectory: emit('error', new Error(message)) throws
\* that error when the BatchProcessor has no 'error' listener, otherwise the
\* handler throws "Batch processing failed: " + message.
ProcessDirectoryCatch(err) ==
  [kind |-> err.kind, item |-> err.item, path |-> err.path,
   wrapped |-> env.batchErrorListener]


\* ---------------------------------------------------------------- Init
\* options.progressConfig of the runs of a batch: not given, so that the
\* reporter draws the progress bar and lets 100 ms pass between two updates.
\* What a run does with the console output switched off, or without
\* throttling, it also does here for some readings of the clock.
ProgressConfigs == {<< >>}

Envs ==
  [files : UNION {[1..n -> FileKinds] : n \in 0..MaxFiles},
   concurrency : 1..MaxConcurrency,
   continueOnError : BOOLEAN,
   batchErrorListener : BOOLEAN,
   sourceExists : BOOLEAN,
   outputSafe : BOOLEAN,
   sourceDirectory : {"src"},
   outputDirectory : {"out"},
   progressConfig : ProgressConfigs]

\* The argument of a call that has not been made.
NoInput == [given |-> FALSE]

QIdle == qin = NoInput /\ qout = [done |-> FALSE]

\* The validator has not been called.
VIdle == vin = NoInput /\ vout = [done |-> FALSE]

\* The configuration passed to the constructor by the caller of this run.
EnvConfig == [concurrency |-> env.concurrency, continueOnError |-> env.continueOnError]

\* processDirectory has not been called.
BatchStart ==
  /\ phase = "idle"
  /\ imageFiles = 0
  /\ outputDirEnsured = FALSE
  /\ pc = << >>
  /\ semaphore = SemaphoreNew(0)
  /\ results = << >>
  /\ processedFiles = 0
  /\ reporter = ReporterInit
  /\ reason = << >>
  /\ onErrorCalls = << >>
  /\ written = {}
  /\ report = << >>
  /\ thrown = << >>
  /\ calls = << >>

BatchInit == env \in Envs /\ BatchStart

Init == BatchInit /\ cm = BatchProcessorNew(EnvConfig) /\ QIdle /\ VIdle

\* ---------------------------------------------------------------- actions
\* processDirectory: validateProcessingOptions
\* Mutant: only the files that were there before the first run are looked at.
isOutputDirectorySafeIgnoringImages(otherFilesSafe, outputImages) == otherFilesSafe

\* FileManager.isOutputDirectorySafe: every file of the directory is a
\* mapping/report .json file.  otherFilesSafe tells this of the files the
\* directory held before the first run, outputImages are the .webp files
\* written since.
isOutputDirectorySafe(otherFilesSafe, outputImages) ==
  otherFilesSafe /\ outputImages = {}

ValidateOptions ==
  /\ cm.constructed
  /\ phase = "idle"
  /\ IF env.sourceExists /\ isOutputDirectorySafe(env.outputSafe, written)
     THEN phase' = "validated" /\ thrown' = thrown
     ELSE phase' = "failed" /\ thrown' = <<ProcessDirectoryCatch(OptionsError)>>
  /\ UNCHANGED <<env, imageFiles, outputDirEnsured, pc, semaphore, results,
                 processedFiles, reporter, reason, onErrorCalls, written, report,
                 qin, qout, cm, calls, vin, vout>>

\* Mutant: scanDirectory without the empty check.
ScanDirectoryNoEmptyCheck ==
  /\ phase = "validated"
  /\ imageFiles' = Len(env.files)
  /\ phase' = "scanned"
  /\ UNCHANGED <<env, outputDirEnsured, pc, semaphore, results,
                 processedFiles, reporter, reason, onErrorCalls, written, report,
                 thrown, qin, qout, cm, calls, vin, vout>>

\* processDirectory: scanDirectory and the empty check
ScanDirectory ==
  /\ phase = "validated"
  /\ imageFiles' = Len(env.files)
  /\ IF Len(env.files) = 0
     THEN phase' = "failed" /\ thrown' = <<ProcessDirectoryCatch(NoFilesError)>>
     ELSE phase' = "scanned" /\ thrown' = thrown
  /\ UNCHANGED <<env, outputDirEnsured, pc, semaphore, results,
                 processedFiles, reporter, reason, onErrorCalls, written, report,
                 qin, qout, cm, calls, vin, vout>>

\* createOutputDirectory: fs.ensureDir completes, the directory exists;
\* fs.access is pending.
CreateOutputDirectory ==
  /\ phase = "scanned"
  /\ ~outputDirEnsured
  /\ outputDirEnsured' = TRUE
  /\ UNCHANGED <<env, phase, imageFiles, pc, semaphore, results,
                 processedFiles, reporter, reason, onErrorCalls, written, report,
                 thrown, qin, qout, cm, calls, vin, vout>>

\* processDirectory: fs.access completes, createOutputDirectory returns;
\* progressReporter.updateConfig(options.progressConfig), progressReporter.start
\* and the synchronous part of processImagesInParallel (new Semaphore, map)
\* run in the same turn.
StartBatch ==
  /\ phase = "scanned"
  /\ outputDirEnsured
  /\ reporter' = ReporterStart(ProgressReporterUpdateConfig(reporter, env.progressConfig),
                               imageFiles)
  /\ results' = << >>
  /\ processedFiles' = 0
  /\ LET m == MapAcquire(SemaphoreNew(getConcurrency),
                         [i \in 1..imageFiles |-> "pending"], 1, imageFiles)
     IN semaphore' = m.sem /\ pc' = m.pc
  /\ reason' = [i \in 1..imageFiles |-> << >>]
  /\ phase' = "processing"
  /\ calls' = [i \in 1..imageFiles |-> << >>]
  /\ UNCHANGED <<env, imageFiles, outputDirEnsured, onErrorCalls, written, report,
                 thrown, qin, qout, cm, vin, vout>>

\* task i resumes after acquire() and calls processImage, which calls
\* validateImageFile before its first await
BeginProcessImage(i) ==
  /\ phase = "processing"
  /\ pc[i] = "acquired"
  /\ pc' = [pc EXCEPT ![i] = "running"]
  /\ calls' = [calls EXCEPT ![i] = <<"validateImageFile">>]
  /\ UNCHANGED <<env, phase, imageFiles, outputDirEnsured, semaphore, results,
                 processedFiles, reporter, reason, onErrorCalls, written, report,
                 thrown, qin, qout, cm, vin, vout>>

\* A task resumed by acquire() continues in a microtask; the event loop runs
\* all of them before it delivers the completion of any processImage.
MicrotasksDrained == \A j \in DOMAIN pc : pc[j] # "acquired"

\* onResult callback of processDirectory: the result is pushed and counted
\* before progressReporter.updateProgress runs; threw tells that
\* updateProgress threw out of the callback.
OnResult(st, result, shouldUpdate) ==
  LET u == UpdateProgress(st.reporter, result, shouldUpdate)
  IN [results |-> Append(st.results, result),
      processedFiles |-> st.processedFiles + 1,
      reporter |-> u.reporter,
      threw |-> u.threw]

\* A result as it is handed to onResult(result, index): the index of the
\* file and the place that built the object travel with it.
Tracked(result, i, origin) ==
  [index |-> i, status |-> result.status, origin |-> origin,
   originalSize |-> result.originalSize, optimizedSize |-> result.optimizedSize,
   compressionRatio |-> result.compressionRatio,
   errorMessage |-> result.errorMessage]

\* Mutant: release() at the end of the try block, not in a finally block.
finallyReleaseOnSuccessOnly(s, threw) ==
  IF threw THEN [sem |-> s, woken |-> 0] ELSE SemRelease(s)

\* finally { semaphore.release() }: runs whether or not the task threw.
finallyRelease(s, threw) == SemRelease(s)

\* processImage of task i: the collaborator it awaits has answered and the
\* next one is called in the same turn.  convertToWebP returns after the
\* fs.stat of the file its toFile wrote.
CallNextCollaborator(i) ==
  /\ phase = "processing"
  /\ pc[i] = "running"
  /\ MicrotasksDrained
  /\ \E all \in {PipelineCalls(env.files[i])} :
     LET n == Len(calls[i])
     IN /\ n < Len(all)
        /\ all[n + 1] = "validateOutputQuality" => i \in written
        /\ calls' = [calls EXCEPT ![i] = SubSeq(all, 1, n + 1)]
  /\ UNCHANGED <<env, phase, imageFiles, outputDirEnsured, pc, semaphore, results,
                 processedFiles, reporter, reason, onErrorCalls, written, report,
                 thrown, qin, qout, cm, vin, vout>>

\* convertToWebP of task i: sharp's toFile completes, the output file is on
\* disk; the item is still running.
EncodeOutput(i) ==
  /\ phase = "processing"
  /\ pc[i] = "running"
  /\ MicrotasksDrained
  /\ calls[i] # << >>
  /\ calls[i][Len(calls[i])] = "convertToWebP"
  /\ WritesOutput(env.files[i])
  /\ i \notin written
  /\ written' = written \cup {i}
  /\ UNCHANGED <<env, phase, imageFiles, outputDirEnsured, pc, semaphore, results,
                 processedFiles, reporter, reason, onErrorCalls, report, thrown,
                 qin, qout, cm, calls, vin, vout>>

\* A task of processImagesInParallel from the moment processImage has
\* resolved to result: lines 775-805.  st holds the results and the count of
\* the call and the reporter; clock holds what the two calls of
\* updateProgress see of the clock.  The try block calls onResult and throws
\* for a failed result in the fail-fast mode; the catch block, entered by
\* that throw or by a throw of onResult, calls onResult with a failed result
\* of its own and then onError, whose reportError and emit('error') throw
\* when nobody listens.  reason is the error the task rejects with (<< >>:
\* it fulfils).
SettleTask(st, result, i, clock) ==
  CHOOSE settled \in
    {CHOOSE s \in
       {LET failFast == result.status = "failed" /\ ~shouldContinueOnError
            caught == first.threw \/ failFast
            processError == IF first.threw THEN RangeError(i) ELSE ItemError(i)
            reportThrows == caught /\ ~second.threw /\ ReportErrorThrows(second.reporter)
            emitThrows == caught /\ ~second.threw /\ ~reportThrows /\ ~env.batchErrorListener
        IN [results |-> second.results,
            processedFiles |-> second.processedFiles,
            reporter |-> second.reporter,
            callsOnError |-> caught /\ ~second.threw /\ ~reportThrows /\ ~emitThrows,
            reason |-> IF ~caught THEN << >>
                       ELSE IF second.threw THEN <<RangeError(i)>>
                       ELSE IF reportThrows THEN <<UnhandledError(i)>>
                       ELSE IF emitThrows \/ ~shouldContinueOnError THEN <<processError>>
                       ELSE << >>]
        : second \in
            {IF first.threw \/ (result.status = "failed" /\ ~shouldContinueOnError)
             THEN OnResult(first,
                           Tracked(EmptyResult("failed",
                                               IF first.threw THEN <<"Invalid count value">>
                                               ELSE result.errorMessage),
                                   i, "catch"),
                           clock[2])
             ELSE first}} : TRUE
     : first \in {OnResult(st, Tracked(result, i, "pipeline"), clock[1])}} : TRUE

\* task i: processImage resolves; the rest of the try / catch / finally runs
CompleteImage(i) ==
  /\ phase = "processing"
  /\ pc[i] = "running"
  /\ MicrotasksDrained
  /\ calls[i] = PipelineCalls(env.files[i])
  /\ \E clock \in ShouldUpdates(reporter) \X ShouldUpdates(reporter) :
     \E settled \in {SettleTask([results |-> results, processedFiles |-> processedFiles,
                                 reporter |-> reporter],
                                processImageResult(env.files[i]), i, clock)} :
     \E rel \in {finallyRelease(semaphore, settled.reason # << >>)} :
        /\ results' = settled.results
        /\ processedFiles' = settled.processedFiles
        /\ reporter' = settled.reporter
        /\ onErrorCalls' = IF settled.callsOnError THEN Append(onErrorCalls, i)
                           ELSE onErrorCalls
        /\ reason' = [reason EXCEPT ![i] = settled.reason]
        /\ semaphore' = rel.sem
        /\ pc' = [j \in 1..imageFiles |->
                    IF j = i THEN (IF settled.reason # << >> THEN "rejected" ELSE "fulfilled")
                    ELSE IF j = rel.woken THEN "acquired"
                    ELSE pc[j]]
  /\ UNCHANGED <<env, phase, imageFiles, outputDirEnsured, written, report, thrown,
                 qin, qout, cm, calls, vin, vout>>

Rejected == {i \in 1..imageFiles : pc[i] = "rejected"}
AllSettled == \A i \in 1..imageFiles : pc[i] \in {"fulfilled", "rejected"}
FirstRejected == CHOOSE i \in Rejected : \A j \in Rejected : i <= j

\* processDirectory after Promise.allSettled has resolved: it throws the
\* first rejection (rejections: the reasons of the rejected tasks, in the
\* order of the files), or progressReporter.complete() throws on an inactive
\* reporter, or it computes the report.
AllSettledOutcome(rejections, r) ==
  IF ~shouldContinueOnError /\ rejections # << >>
  THEN [phase |-> "failed", thrown |-> <<ProcessDirectoryCatch(rejections[1])>>,
        reporter |-> r, report |-> << >>]
  ELSE IF ~r.isActive
  THEN [phase |-> "failed", thrown |-> <<ProcessDirectoryCatch(ReporterInactiveError)>>,
        reporter |-> r, report |-> << >>]
  ELSE [phase |-> "completed", thrown |-> << >>,
        reporter |-> [r EXCEPT !.isActive = FALSE],
        report |-> <<GenerateFinalReport(r)>>]

\* Promise.allSettled resolves; saveProcessingArtifacts is then awaited.
Finish ==
  /\ phase = "processing"
  /\ AllSettled
  /\ \E outcome \in {AllSettledOutcome(IF Rejected = {} THEN << >>
                                       ELSE reason[FirstRejected], reporter)} :
       /\ phase' = outcome.phase
       /\ thrown' = outcome.thrown
       /\ reporter' = outcome.reporter
       /\ report' = outcome.report
  /\ UNCHANGED <<env, imageFiles, outputDirEnsured, pc, semaphore, results,
                 processedFiles, reason, onErrorCalls, written, qin, qout, cm, calls, vin, vout>>

\* saveProcessingArtifacts: fs.writeJson of filename-mapping.json completes
SaveFilenameMapping ==
  /\ phase = "completed"
  /\ phase' = "mappingSaved"
  /\ UNCHANGED <<env, imageFiles, outputDirEnsured, pc, semaphore, results,
                 processedFiles, reporter, reason, onErrorCalls, written, report,
                 thrown, qin, qout, cm, calls, vin, vout>>

\* saveProcessingArtifacts: fs.writeJson of optimization-report.json
\* completes; processDirectory returns the report.
SaveReport ==
  /\ phase = "mappingSaved"
  /\ phase' = "returned"
  /\ UNCHANGED <<env, imageFiles, outputDirEnsured, pc, semaphore, results,
                 processedFiles, reporter, reason, onErrorCalls, written, report,
                 thrown, qin, qout, cm, calls, vin, vout>>

Next ==
  \/ ValidateOptions
  \/ ScanDirectory
  \/ CreateOutputDirectory
  \/ StartBatch
  \/ \E i \in 1..imageFiles : BeginProcessImage(i)
  \/ \E i \in 1..imageFiles : CallNextCollaborator(i)
  \/ \E i \in 1..imageFiles : EncodeOutput(i)
  \/ \E i \in 1..imageFiles : CompleteImage(i)
  \/ Finish
  \/ SaveFilenameMapping
  \/ SaveReport

Spec == Init /\ [][Next]_vars

\* ---------------------------------------------------------------- batch claims
InFlight == {i \in DOMAIN pc : pc[i] = "running"}
Waiting == {i \in DOMAIN pc : pc[i] = "waiting"}
FailedItems == {i \in 1..Len(env.files) : ProcessImage(env.files[i]) = "failed"}
SkippedItems == {i \in 1..Len(env.files) : ProcessImage(env.files[i]) = "skipped"}

\* C1: during processDirectory with concurrency N >= 1, at most N processImage
\* calls are in flight at every moment.
C1_AtMostNInFlight == Cardinality(InFlight) <= getConcurrency

\* The limiter is binding: N pipelines run while another item waits.
C1_Witness == Cardinality(InFlight) = getConcurrency /\ Waiting # {}

\* C2: with continueOnError=true and a non-empty file set, processDirectory
\* does not fail because of items; the report has exactly one result per
\* enumerated file and failedConversions counts the failed items.
C2_ContinueOnErrorReport ==
  (env.continueOnError /\ Len(env.files) > 0) =>
    /\ phase = "failed" => thrown[1].kind = "options"
    /\ phase = "returned" =>
         /\ \A i \in 1..imageFiles : pc[i] = "fulfilled"
         /\ report[1].totalImages = Len(env.files)
         /\ \A i \in 1..Len(env.files) : CountIndex(report[1].results, i) = 1
         /\ report[1].failedConversions = Cardinality(FailedItems)

C2_Witness ==
  /\ env.continueOnError
  /\ phase = "returned"
  /\ FailedItems # {}
  /\ Cardinality(FailedItems) < Len(env.files)

\* C3 (as claimed): with continueOnError=false, once an item has ended failed
\* no further item starts its pipeline.
C3_NoStartAfterFailure ==
  [][(phase = "processing" /\ ~env.continueOnError
        /\ \E i \in DOMAIN pc : pc[i] = "rejected")
     => \A j \in DOMAIN pc : pc'[j] = "running" => pc[j] = "running"]_vars

\* C4 (as claimed): every file contributes one result and one increment of
\* the processed count, under either continueOnError setting.
C4_ReportedOnce ==
  /\ \A i \in 1..imageFiles : CountIndex(results, i) <= 1
  /\ processedFiles <= imageFiles

FailedPositions == {k \in 1..Len(results) : results[k].status = "failed"}
FirstFailedInTime ==
  results[CHOOSE k \in FailedPositions : \A m \in FailedPositions : k <= m].index

\* C5 (as claimed): with continueOnError=false and a failed item,
\* processDirectory fails with the error of the item that failed first in time.
C5_FirstErrorInTime ==
  (~env.continueOnError /\ phase \in {"failed", "returned"} /\ FailedPositions # {}) =>
     /\ phase = "failed"
     /\ thrown[1].item = FirstFailedInTime

\* C6: when enumeration returns no files, processDirectory fails with the
\* no-supported-files error before the output directory is created, before
\* progress tracking starts and before any item is processed; no report.
C6_EmptyDirectoryFails ==
  Len(env.files) = 0 =>
    /\ phase \in {"idle", "validated", "failed"}
    /\ phase = "failed" => thrown[1].kind \in {"options", "noFiles"}
    /\ (phase = "failed" /\ env.sourceExists /\ env.outputSafe) => thrown[1].kind = "noFiles"
    /\ ~outputDirEnsured
    /\ ~reporter.isActive
    /\ pc = << >>
    /\ results = << >>
    /\ report = << >>

C6_Witness == phase = "failed" /\ thrown[1].kind = "noFiles"

\* C7: every returned report has totalImages = length of results and
\* successfulConversions + failedConversions <= totalImages.
C7_ReportTotals ==
  phase = "returned" =>
    /\ report[1].totalImages = Len(report[1].results)
    /\ report[1].successfulConversions + report[1].failedConversions
         <= report[1].totalImages

C7_Witness ==
  /\ phase = "returned"
  /\ SkippedItems # {}
  /\ FailedItems # {}
  /\ report[1].successfulConversions > 0

\* ---------------------------------------------------------------- quality spec
\* The quality calculator on its own: a DynamicQualityCalculator constructed
\* with minimumQuality, applied to one analysed image.
IdleEnv == [files |-> << >>, concurrency |-> DefaultConcurrency,
            continueOnError |-> DefaultContinueOnError, batchErrorListener |-> FALSE,
            sourceExists |-> TRUE, outputSafe |-> TRUE,
            sourceDirectory |-> "src", outputDirectory |-> "out",
            progressConfig |-> << >>]

BatchIdle ==
  /\ env = IdleEnv
  /\ phase = "idle"
  /\ imageFiles = 0
  /\ outputDirEnsured = FALSE
  /\ pc = << >>
  /\ semaphore = SemaphoreNew(0)
  /\ results = << >>
  /\ processedFiles = 0
  /\ reporter = ReporterInit
  /\ reason = << >>
  /\ onErrorCalls = << >>
  /\ written = {}
  /\ report = << >>
  /\ thrown = << >>
  /\ calls = << >>

QInit ==
  /\ BatchIdle
  /\ cm = BatchProcessorNew(EnvConfig)
  /\ VIdle
  /\ qin \in QInputs
  /\ qout = [done |-> FALSE]

CalculateQuality ==
  /\ ~qout.done
  /\ qout' = calculateOptimalQuality(qin)
  /\ UNCHANGED <<qin, env, phase, imageFiles, outputDirEnsured, pc, semaphore, results,
                 processedFiles, reporter, reason, onErrorCalls, written, report, thrown,
                 cm, calls, vin, vout>>

\* DynamicQualityCalculator.setMinimumQuality: a value outside 1..100 throws
\* and leaves the field as it is.
setMinimumQuality(in, newMinimum) ==
  IF newMinimum < MinQualityLow \/ newMinimum > MinQualityHigh THEN in
  ELSE [in EXCEPT !.minimumQuality = newMinimum]

\* Arguments of setMinimumQuality: both sides of each end of the range.
NewMinimums == {0, 50, 90, 101}

\* A call of the setter before calculateOptimalQuality reads the minimum,
\* which it does after the awaited analysis (CalculateQuality).
SetMinimumQuality(newMinimum) ==
  /\ ~qout.done
  /\ qin' = setMinimumQuality(qin, newMinimum)
  /\ UNCHANGED <<qout, env, phase, imageFiles, outputDirEnsured, pc, semaphore,
                 results, processedFiles, reporter, reason, onErrorCalls, written,
                 report, thrown, cm, calls, vin, vout>>

QNext ==
  \/ CalculateQuality
  \/ \E newMinimum \in NewMinimums : SetMinimumQuality(newMinimum)

SpecQuality == QInit /\ [][QNext]_vars

\* ---------------------------------------------------------------- quality claims
Contains(seq, x) == \E k \in 1..Len(seq) : seq[k] = x

\* C8 (as claimed): for every minimumQuality in 1..100 the returned quality
\* lies in [minimumQuality, 95].
C8_QualityWithinMinAnd95 ==
  qout.done => (qin.minimumQuality <= qout.quality /\ qout.quality <= QualityCeiling)

\* C8 (amended): the returned quality lies in [minimumQuality, 95] when
\* minimumQuality <= 95, and is exactly minimumQuality when minimumQuality > 95.
C8_QualityWithinMinAndCeiling ==
  qout.done =>
    /\ qin.minimumQuality <= qout.quality
    /\ qin.minimumQuality <= QualityCeiling => qout.quality <= QualityCeiling
    /\ qin.minimumQuality > QualityCeiling => qout.quality = qin.minimumQuality

\* The ceiling is what bounds the result: the adjustments add up to more
\* than 95 and the minimum is lower.
C8_Witness ==
  /\ qout.done
  /\ qin.minimumQuality < QualityCeiling
  /\ qout.quality = QualityCeiling
  /\ applyQualityAdjustmentsNoCeiling(getBaseQuality(qout.contentType, qout.strategy),
                                      qin.characteristics, qout.contentType)
       > QualityCeiling

\* C9: the returned quality is never below minimumQuality, and whenever the
\* adjusted quality is below minimumQuality the result is exactly
\* minimumQuality and the reasoning has the minimum-threshold entry.
C9_MinimumEnforced ==
  qout.done =>
    /\ qout.quality >= qin.minimumQuality
    /\ adjustedQualityOf(qin) < qin.minimumQuality =>
         /\ qout.quality = qin.minimumQuality
         /\ Contains(qout.reasoning, "enforced minimum quality threshold")

\* minimumQuality 85 and an image whose adjusted quality is lower.
C9_Witness ==
  /\ qout.done
  /\ qin.minimumQuality = 85
  /\ adjustedQualityOf(qin) < 85
  /\ qout.quality = 85

\* C10: with hasTransparency=true the classification is never photo.
C10_TransparencyNeverPhoto ==
  (qout.done /\ qin.characteristics.hasTransparency) => qout.contentType # "photo"

\* A transparent image that has every other trait of a photo.
C10_Witness ==
  /\ qout.done
  /\ qin.characteristics.hasTransparency
  /\ qin.characteristics.colorComplexity > 60
  /\ qin.characteristics.edgeCount < 40
  /\ qin.characteristics.colorDepth >= 8
  /\ qout.contentType = "graphic"

\* DynamicQualityCalculator.applyQualityAdjustments: one label for every
\* adjustment that changes the quality, in the order of the statements.
AdjustmentLabels(c, contentType) ==
  (IF c.colorComplexity > 80 THEN <<"high color complexity">>
   ELSE IF c.colorComplexity < 30 THEN <<"low color complexity">> ELSE << >>)
  \o (IF c.edgeCount > 70 THEN <<"high edge content">>
      ELSE IF c.edgeCount < 30 THEN <<"smooth gradients">> ELSE << >>)
  \o (IF c.hasTransparency THEN <<"transparency">> ELSE << >>)
  \o (IF c.colorDepth >= 10 THEN <<"high color depth">>
      ELSE IF c.colorDepth <= 6 THEN <<"limited color depth">> ELSE << >>)
  \o (IF c.aspectRatio > 300 \/ c.aspectRatio < 33 THEN <<"extreme aspect ratio">>
      ELSE << >>)
  \o (CASE contentType = "photo" ->
             IF c.edgeCount < 25 THEN <<"content-specific">> ELSE << >>
         [] contentType = "graphic" ->
             IF c.colorComplexity > 60 THEN <<"content-specific">> ELSE << >>
         [] contentType = "mixed" ->
             IF c.colorComplexity > 70 /\ c.edgeCount > 60 THEN <<"content-specific">>
             ELSE << >>
         [] OTHER -> << >>)

\* C23: the reasoning starts with the base entry, followed by one label for
\* every adjustment that fired (the extreme-aspect-ratio adjustment and the
\* content-specific one included) in the order the adjustments are applied.
C23_EveryAdjustmentLabelled ==
  qout.done =>
    LET expected == <<"base">> \o AdjustmentLabels(qin.characteristics, qout.contentType)
    IN /\ Len(qout.reasoning) >= Len(expected)
       /\ SubSeq(qout.reasoning, 1, Len(expected)) = expected

\* ---------------------------------------------------------------- analyzer spec
\* One call of ImageContentAnalyzer.analyzeImageContent on a file whose
\* true characteristics are given, with each Codec operation failing or not.
DefaultEdgeCount == 50

AInputs ==
  [characteristics : Characteristics,
   metadataFails : BOOLEAN,
   statsFails : BOOLEAN,
   convolveFails : BOOLEAN]

\* ImageContentAnalyzer.estimateEdgeCount
estimateEdgeCount(in) ==
  IF in.convolveFails THEN DefaultEdgeCount ELSE in.characteristics.edgeCount

\* ImageContentAnalyzer.extractImageCharacteristics
extractImageCharacteristics(in) ==
  [in.characteristics EXCEPT !.edgeCount = estimateEdgeCount(in)]

AnalysisError == [done |-> TRUE, failed |-> TRUE]

\* ImageContentAnalyzer.analyzeImageContent with the Codec calls it makes
analyzeImageFile(in) ==
  IF in.metadataFails \/ in.statsFails
  THEN AnalysisError
  ELSE LET analysis == analyzeImageContent(extractImageCharacteristics(in))
       IN [done |-> TRUE, failed |-> FALSE,
           contentType |-> analysis.contentType,
           compressionStrategy |-> analysis.compressionStrategy,
           characteristics |-> analysis.characteristics]

AInit ==
  /\ BatchIdle
  /\ cm = BatchProcessorNew(EnvConfig)
  /\ VIdle
  /\ qin \in AInputs
  /\ qout = [done |-> FALSE]

AnalyzeImage ==
  /\ ~qout.done
  /\ qout' = analyzeImageFile(qin)
  /\ UNCHANGED <<qin, env, phase, imageFiles, outputDirEnsured, pc, semaphore, results,
                 processedFiles, reporter, reason, onErrorCalls, written, report, thrown,
                 cm, calls, vin, vout>>

ANext == AnalyzeImage

SpecAnalyzer == AInit /\ [][ANext]_vars

\* C24: when the metadata read, the channel statistics or the edge
\* convolution fails, the analysis fails and yields neither characteristics
\* nor a classification.
C24_NoPartialSuccess ==
  (qout.done /\ (qin.metadataFails \/ qin.statsFails \/ qin.convolveFails))
    => qout.failed

\* ---------------------------------------------------------------- reporter spec
\* One ProgressReporter with its clock: start, updateProgress, reportError,
\* updateConfig and complete, called at arbitrary times and in any order.
\* env holds Date.now() in milliseconds, which advances 50 ms at a time,
\* MaxTime times.  The reporter record also has lastUpdateTime and the list
\* of 'progress' events emitted since the last start; report holds what the
\* last call returned and thrown the error it threw.
MaxTime == 4
UpdateIntervals == {50, 100, 150}

\* The configurations given to the constructor and to updateConfig.
ReporterConfigs ==
  {<< >>, [enableConsoleOutput |-> FALSE]}
  \cup {[updateInterval |-> n] : n \in UpdateIntervals}

\* ProgressReporter.start at time now
startAt(r, totalFiles, now) ==
  [ReporterStart(r, totalFiles) EXCEPT !.lastUpdateTime = now, !.emitted = << >>]

\* Mutant: the final item is throttled like any other.
updateProgressAtThrottledOnly(r, result, currentTime) ==
  IF ~r.isActive THEN [reporter |-> r, threw |-> FALSE]
  ELSE LET shouldUpdate == (currentTime - r.lastUpdateTime) >= r.config.updateInterval
           u == UpdateProgress(r, result, shouldUpdate)
           threw == shouldUpdate /\ u.threw
       IN [reporter |->
             IF shouldUpdate
             THEN [u.reporter EXCEPT
                     !.lastUpdateTime = currentTime,
                     !.emitted = IF threw THEN @
                                 ELSE Append(@, [time |-> currentTime,
                                                 since |-> r.lastUpdateTime,
                                                 processedFiles |-> u.reporter.processedFiles])]
             ELSE u.reporter,
           threw |-> threw]

\* ProgressReporter.updateProgress at time currentTime: lastUpdateTime is
\* assigned before the progress is displayed, the 'progress' event is emitted
\* after it, so a call that throws has moved lastUpdateTime and emitted
\* nothing.
updateProgressAt(r, result, currentTime) ==
  IF ~r.isActive THEN [reporter |-> r, threw |-> FALSE]
  ELSE LET shouldUpdate == (currentTime - r.lastUpdateTime) >= r.config.updateInterval
           u == UpdateProgress(r, result, shouldUpdate)
       IN [reporter |->
             IF u.shown
             THEN [u.reporter EXCEPT
                     !.lastUpdateTime = currentTime,
                     !.emitted = IF u.threw THEN @
                                 ELSE Append(@, [time |-> currentTime,
                                                 since |-> r.lastUpdateTime,
                                                 processedFiles |-> u.reporter.processedFiles])]
             ELSE u.reporter,
           threw |-> u.threw]

\* The results handed to updateProgress, which counts and stores them:
\* nothing it reads of a result decides whether it emits.
ReporterResults == {processImageResult("good")}

RInit ==
  /\ env = [now |-> 0]
  /\ \E config \in ReporterConfigs :
       reporter = ProgressReporterNew(config) @@ [lastUpdateTime |-> 0, emitted |-> << >>]
  /\ phase = "idle"
  /\ imageFiles = 0
  /\ outputDirEnsured = FALSE
  /\ pc = << >>
  /\ semaphore = SemaphoreNew(0)
  /\ results = << >>
  /\ processedFiles = 0
  /\ reason = << >>
  /\ onErrorCalls = << >>
  /\ written = {}
  /\ report = << >>
  /\ thrown = << >>
  /\ calls = << >>
  /\ cm = NotConstructed
  /\ QIdle
  /\ VIdle

reporterRest ==
  <<phase, imageFiles, outputDirEnsured, pc, semaphore, results, processedFiles, reason,
    onErrorCalls, written, calls, cm, qin, qout, vin, vout>>

\* Date.now() advances
RTick ==
  /\ env.now < 50 * MaxTime
  /\ env' = [env EXCEPT !.now = @ + 50]
  /\ UNCHANGED <<reporter, report, thrown, reporterRest>>

\* progressReporter.start(totalFiles, sourceDirectory): it resets the run
\* whatever the state of the reporter, active or completed.
RStart(totalFiles) ==
  /\ reporter' = startAt(reporter, totalFiles, env.now)
  /\ report' = << >>
  /\ thrown' = << >>
  /\ UNCHANGED <<env, reporterRest>>

\* progressReporter.updateProgress(result, filename)
RUpdateProgress(result) ==
  /\ reporter.processedFiles <= MaxFiles
  /\ \E u \in {updateProgressAt(reporter, result, env.now)} :
       /\ reporter' = u.reporter
       /\ thrown' = IF u.threw THEN <<RangeError(0)>> ELSE << >>
  /\ report' = << >>
  /\ UNCHANGED <<env, reporterRest>>

\* progressReporter.updateConfig(config)
RUpdateConfig(config) ==
  /\ reporter' = ProgressReporterUpdateConfig(reporter, config)
  /\ report' = << >>
  /\ thrown' = << >>
  /\ UNCHANGED <<env, reporterRest>>

\* progressReporter.reportError(error, filename): nothing on an inactive
\* reporter; on an active one emit('error') throws when nobody listens.
RReportError ==
  /\ thrown' = IF ReportErrorThrows(reporter) THEN <<UnhandledError(0)>> ELSE << >>
  /\ report' = << >>
  /\ UNCHANGED <<env, reporter, reporterRest>>

\* progressReporter.complete()
RComplete ==
  /\ IF reporter.isActive
     THEN /\ reporter' = [reporter EXCEPT !.isActive = FALSE]
          /\ report' = <<GenerateFinalReport(reporter)>>
          /\ thrown' = << >>
     ELSE /\ thrown' = <<ReporterInactiveError>>
          /\ report' = << >>
          /\ UNCHANGED reporter
  /\ UNCHANGED <<env, reporterRest>>

RNext ==
  \/ RTick
  \/ \E totalFiles \in 0..MaxFiles : RStart(totalFiles)
  \/ \E result \in ReporterResults : RUpdateProgress(result)
  \/ \E config \in ReporterConfigs : RUpdateConfig(config)
  \/ RReportError
  \/ RComplete

SpecReporter == RInit /\ [][RNext]_vars

\* C25: while the run is active a recorded item emits 'progress' only if the
\* update interval in force has elapsed since the previous emission or the
\* item is the final one (processed = total), and the final item always
\* emits.
C25_ThrottledExceptFinal ==
  [][(reporter.isActive /\ reporter'.processedFiles = reporter.processedFiles + 1) =>
       LET emits == Len(reporter'.emitted) = Len(reporter.emitted) + 1
           elapsed == env.now - reporter.lastUpdateTime
           final == reporter'.processedFiles = reporter.totalFiles
       IN /\ emits => (elapsed >= reporter.config.updateInterval \/ final)
          /\ final => (emits /\ thrown' = << >>)
          /\ ~emits => reporter'.emitted = reporter.emitted]_vars

\* An earlier item was throttled, and the final one was emitted although
\* less than the interval had elapsed since the previous emission.
C25_Witness ==
  /\ reporter.isActive
  /\ reporter.processedFiles = reporter.totalFiles
  /\ reporter.emitted # << >>
  /\ Len(reporter.emitted) < reporter.processedFiles
  /\ LET last == reporter.emitted[Len(reporter.emitted)]
     IN /\ last.processedFiles = reporter.totalFiles
        /\ last.time - last.since < reporter.config.updateInterval

\* ---------------------------------------------------------------- output paths
\* Two files enumerated by one scan and the output paths processImage
\* gives them.  A path is a directory, a file name and an extension.
SourceDirectories == {"src", "src/sub"}
FileNames == {"a", "b"}
\* DEFAULT_CONFIG.supportedFormats
SupportedExtensions == {"jpg", "jpeg", "png", "dng"}

\* Extensions of the files of a directory, as they are written on disk.
FileExtensions == {"jpg", "JPG", "jpeg", "png", "PNG", "dng", "txt"}

\* String.prototype.toLowerCase on an extension
toLowerCase(ext) ==
  IF ext = "JPG" THEN "jpg" ELSE IF ext = "PNG" THEN "png" ELSE ext

\* FileManager.isSupportedImageFile
isSupportedImageFile(file) == toLowerCase(file.ext) \in SupportedExtensions

\* FileManager.scanDirectory: the files it can return, those of the source
\* directory and of its sub-directories whose extension is supported.
SourcePaths ==
  {file \in [dir : SourceDirectories, name : FileNames, ext : FileExtensions] :
     isSupportedImageFile(file)}

\* FileManager.generateWebPFilename: path.parse(originalPath).name + '.webp'
generateWebPFilename(originalPath) == [name |-> originalPath.name, ext |-> "webp"]

\* FileManager.generateWebPOutputPath
generateWebPOutputPath(originalPath, outputDirectory) ==
  LET webpFilename == generateWebPFilename(originalPath)
  IN [dir |-> outputDirectory, name |-> webpFilename.name, ext |-> webpFilename.ext]

PInputs == [first : SourcePaths, second : SourcePaths, outputDirectory : {"out"}]

PInit ==
  /\ BatchIdle
  /\ cm = BatchProcessorNew(EnvConfig)
  /\ VIdle
  /\ qin \in PInputs
  /\ qout = [done |-> FALSE]

\* processImage, line 618, for both files
GenerateOutputPaths ==
  /\ ~qout.done
  /\ qout' = [done |-> TRUE,
              first |-> generateWebPOutputPath(qin.first, qin.outputDirectory),
              second |-> generateWebPOutputPath(qin.second, qin.outputDirectory)]
  /\ UNCHANGED <<qin, env, phase, imageFiles, outputDirEnsured, pc, semaphore, results,
                 processedFiles, reporter, reason, onErrorCalls, written, report, thrown,
                 cm, calls, vin, vout>>

PNext == GenerateOutputPaths

SpecPaths == PInit /\ [][PNext]_vars

\* C26: two different input files of one run are never given the same
\* output path.
C26_DistinctOutputPaths ==
  (qout.done /\ qin.first # qin.second) => qout.first # qout.second

\* ---------------------------------------------------------------- overlapping runs
\* Two processDirectory calls on one BatchProcessor, each on directories of
\* its own, interleaved at their awaits.  Every variable of a call (phase,
\* imageFiles, pc, semaphore, results, processedFiles, reason, report,
\* thrown, onErrorCalls) is a function of the call; the ProgressReporter is
\* the one the constructor created.  All files convert successfully.
Calls == {1, 2}

\* File i of call c, as the results name it.
OwnFile(c, i) == <<c, i>>

\* The options of the two calls: progressConfig not given, the console
\* output switched off, no throttling.
OEnvs ==
  {[IdleEnv EXCEPT !.concurrency = n, !.batchErrorListener = l, !.progressConfig = p] :
     n \in 1..MaxConcurrency, l \in BOOLEAN,
     p \in ProgressConfigs \cup {[enableConsoleOutput |-> FALSE], [updateInterval |-> 0]}}

OInit ==
  /\ env \in OEnvs
  /\ imageFiles \in [Calls -> 1..MaxFiles]
  /\ phase = [c \in Calls |-> "idle"]
  /\ results = [c \in Calls |-> << >>]
  /\ processedFiles = [c \in Calls |-> 0]
  /\ report = [c \in Calls |-> << >>]
  /\ thrown = [c \in Calls |-> << >>]
  /\ pc = [c \in Calls |-> << >>]
  /\ semaphore = [c \in Calls |-> SemaphoreNew(0)]
  /\ reason = [c \in Calls |-> << >>]
  /\ onErrorCalls = [c \in Calls |-> << >>]
  /\ reporter = ReporterInit
  /\ outputDirEnsured = FALSE
  /\ written = {}
  /\ calls = << >>
  /\ cm = BatchProcessorNew(EnvConfig)
  /\ QIdle
  /\ VIdle

overlapRest == <<env, imageFiles, outputDirEnsured, written, calls, cm, qin, qout, vin, vout>>

\* A task whose acquire() has resolved continues in a microtask of the same
\* turn and calls processImage.
RunAcquired(p) == [j \in DOMAIN p |-> IF p[j] = "acquired" THEN "running" ELSE p[j]]

\* processDirectory of call c: its options are valid and its directory has
\* files; the turn in which createOutputDirectory returns runs updateConfig,
\* progressReporter.start, the map of processImagesInParallel and the
\* microtasks of the tasks that got a permit.
OStart(c) ==
  /\ phase[c] = "idle"
  /\ phase' = [phase EXCEPT ![c] = "processing"]
  /\ reporter' = ReporterStart(ProgressReporterUpdateConfig(reporter, env.progressConfig),
                               imageFiles[c])
  /\ \E m \in {MapAcquire(SemaphoreNew(getConcurrency),
                          [i \in 1..imageFiles[c] |-> "pending"], 1, imageFiles[c])} :
       /\ semaphore' = [semaphore EXCEPT ![c] = m.sem]
       /\ pc' = [pc EXCEPT ![c] = RunAcquired(m.pc)]
  /\ reason' = [reason EXCEPT ![c] = [i \in 1..imageFiles[c] |-> << >>]]
  /\ UNCHANGED <<results, processedFiles, report, thrown, onErrorCalls, overlapRest>>

\* The reasons of the rejected tasks, in the order of the files.
RECURSIVE Rejections(_, _)
Rejections(reasons, i) ==
  IF i > Len(reasons) THEN << >>
  ELSE reasons[i] \o Rejections(reasons, i + 1)

\* Task i of call c: processImage resolves and the rest of the task runs; the
\* task the release wakes calls processImage in a microtask.  When it is the
\* last task of the call to settle, Promise.allSettled resolves and
\* processDirectory goes on to progressReporter.complete() within the turn.
OSettle(c, i) ==
  /\ phase[c] = "processing"
  /\ pc[c][i] = "running"
  /\ \E clock \in ShouldUpdates(reporter) \X ShouldUpdates(reporter) :
     \E settled \in {SettleTask([results |-> results[c],
                                 processedFiles |-> processedFiles[c],
                                 reporter |-> reporter],
                                processImageResult("good"), OwnFile(c, i), clock)} :
     \E rel \in {finallyRelease(semaphore[c], settled.reason # << >>)} :
     \E after \in {[j \in 1..imageFiles[c] |->
                      IF j = i THEN (IF settled.reason # << >> THEN "rejected"
                                     ELSE "fulfilled")
                      ELSE IF j = rel.woken THEN "running"
                      ELSE pc[c][j]]} :
     \E reasons \in {[reason[c] EXCEPT ![i] = settled.reason]} :
        /\ results' = [results EXCEPT ![c] = settled.results]
        /\ processedFiles' = [processedFiles EXCEPT ![c] = settled.processedFiles]
        /\ onErrorCalls' = [onErrorCalls EXCEPT ![c] =
                              IF settled.callsOnError THEN Append(@, i) ELSE @]
        /\ reason' = [reason EXCEPT ![c] = reasons]
        /\ semaphore' = [semaphore EXCEPT ![c] = rel.sem]
        /\ pc' = [pc EXCEPT ![c] = after]
        /\ IF \A j \in 1..imageFiles[c] : after[j] \in {"fulfilled", "rejected"}
           THEN \E outcome \in {AllSettledOutcome(Rejections(reasons, 1),
                                                  settled.reporter)} :
                  /\ phase' = [phase EXCEPT ![c] = outcome.phase]
                  /\ thrown' = [thrown EXCEPT ![c] = outcome.thrown]
                  /\ report' = [report EXCEPT ![c] = outcome.report]
                  /\ reporter' = outcome.reporter
           ELSE /\ reporter' = settled.reporter
                /\ UNCHANGED <<phase, thrown, report>>
  /\ UNCHANGED overlapRest

\* saveProcessingArtifacts of call c: fs.writeJson of filename-mapping.json
\* completes
OSaveFilenameMapping(c) ==
  /\ phase[c] = "completed"
  /\ phase' = [phase EXCEPT ![c] = "mappingSaved"]
  /\ UNCHANGED <<results, processedFiles, report, thrown, pc, semaphore, reason,
                 onErrorCalls, reporter, overlapRest>>

\* saveProcessingArtifacts of call c: fs.writeJson of optimization-report.json
\* completes; processDirectory returns the report.
OSaveReport(c) ==
  /\ phase[c] = "mappingSaved"
  /\ phase' = [phase EXCEPT ![c] = "returned"]
  /\ UNCHANGED <<results, processedFiles, report, thrown, pc, semaphore, reason,
                 onErrorCalls, reporter, overlapRest>>

ONext ==
  \/ \E c \in Calls : OStart(c)
  \/ \E c \in Calls : \E i \in 1..imageFiles[c] : OSettle(c, i)
  \/ \E c \in Calls : OSaveFilenameMapping(c)
  \/ \E c \in Calls : OSaveReport(c)

SpecOverlap == OInit /\ [][ONext]_vars

\* The results of the files of call c
OwnResults(c) ==
  {Tracked(processImageResult("good"), OwnFile(c, i), "pipeline") : i \in 1..imageFiles[c]}

\* C27: a processDirectory call that is over, overlapped by another call on
\* the same instance or not, has returned a report whose results are exactly
\* the results of its own files.
C27_OwnReportPerCall ==
  \A c \in Calls :
    phase[c] \in {"returned", "failed"} =>
      /\ phase[c] = "returned"
      /\ report[c] # << >>
      /\ Len(report[c][1].results) = imageFiles[c]
      /\ {report[c][1].results[k] : k \in 1..Len(report[c][1].results)} = OwnResults(c)
      /\ report[c][1].totalImages = imageFiles[c]

\* ---------------------------------------------------------------- later runs
\* processDirectory called again, with the same options, after the previous
\* call is over.  The output directory keeps the images written so far; the
\* ProgressReporter is the same object.
CallAgain ==
  /\ phase \in {"returned", "failed"}
  /\ phase' = "idle"
  /\ imageFiles' = 0
  /\ outputDirEnsured' = FALSE
  /\ pc' = << >>
  /\ semaphore' = SemaphoreNew(0)
  /\ results' = << >>
  /\ processedFiles' = 0
  /\ reason' = << >>
  /\ onErrorCalls' = << >>
  /\ report' = << >>
  /\ thrown' = << >>
  /\ calls' = << >>
  /\ UNCHANGED <<env, reporter, written, cm, qin, qout, vin, vout>>

RerunNext == Next \/ CallAgain

SpecRerun == Init /\ [][RerunNext]_vars

\* C30: a processDirectory call made when the output directory holds an
\* image written by an earlier run fails in validateProcessingOptions: no
\* file is enumerated, the directory is not created or written to.
C30_RerunRejected ==
  [][(phase = "idle" /\ written # {} /\ phase' # "idle") =>
       /\ phase' = "failed"
       /\ thrown' = <<ProcessDirectoryCatch(OptionsError)>>
       /\ imageFiles' = 0
       /\ outputDirEnsured' = FALSE
       /\ written' = written]_vars

\* The second call on a directory that was safe before the first run, and
\* whose source exists, has failed in the validation.
C30_Witness ==
  /\ env.sourceExists
  /\ env.outputSafe
  /\ written # {}
  /\ phase = "failed"
  /\ thrown = <<ProcessDirectoryCatch(OptionsError)>>
  /\ imageFiles = 0

\* ---------------------------------------------------------------- liveness
\* The event loop runs every ready continuation, and every await of the
\* pipeline (file system, sharp) completes: a step that is enabled is taken.
SpecFair == Spec /\ WF_vars(Next)

\* processDirectory has returned or thrown, every task has settled, and the
\* limiter of a run that got as far as the tasks is back at its capacity with
\* nobody waiting.
RunIsOver ==
  /\ phase \in {"returned", "failed"}
  /\ AllSettled
  /\ pc # << >> => /\ semaphore.permits = getConcurrency
                   /\ semaphore.waitQueue = << >>
                   /\ \A i \in 1..imageFiles : Len(calls[i]) > 0

\* C12: for every concurrency >= 1, every enumerated item eventually leaves
\* the wait queue, runs its pipeline and settles, every permit is released
\* whether the item succeeded or failed, and processDirectory eventually
\* returns or throws.
C12_EveryItemTerminates == (phase = "idle") ~> RunIsOver

\* More files than permits, one of them failing in the fail-fast mode, and
\* the run is over with all permits back.
C12_Witness ==
  /\ RunIsOver
  /\ imageFiles > getConcurrency
  /\ ~shouldContinueOnError
  /\ FailedItems # {}
  /\ semaphore.permits = getConcurrency

\* ---------------------------------------------------------------- hand-off
\* The tasks call acquire() in index order inside one synchronous map, so
\* among the waiting tasks the one with the lowest index has waited longest.
LongestWaiter == CHOOSE j \in Waiting : \A k \in Waiting : j <= k

\* C13: when a task releases its permit while others wait, the permit goes
\* to the task that has waited longest and to nobody else, and the free pool
\* does not grow; the pool grows by one only when nobody is waiting.
C13_FifoHandOff ==
  [][\A i \in DOMAIN pc :
       (pc[i] = "running" /\ pc'[i] \in {"fulfilled", "rejected"}) =>
         IF Waiting # {}
         THEN /\ pc'[LongestWaiter] = "acquired"
              /\ \A k \in Waiting \ {LongestWaiter} : pc'[k] = "waiting"
              /\ semaphore'.permits = semaphore.permits
         ELSE semaphore'.permits = semaphore.permits + 1]_vars

\* A task resumed by a release while a later task is still waiting.
C13_Witness ==
  /\ phase = "processing"
  /\ \E i \in DOMAIN pc : pc[i] \in {"fulfilled", "rejected"}
  /\ \E j \in DOMAIN pc : /\ pc[j] = "acquired"
                           /\ Waiting # {}
                           /\ \A k \in Waiting : k > j

\* ---------------------------------------------------------------- result order
\* The indices of the files of a list of results.
Indices(rs) == [k \in 1..Len(rs) |-> rs[k].index]

\* C14: the reporter's result list grows at its end by the results of the
\* task that completes, so it is in completion order; with concurrency 1 the
\* result list of the returned report is in enumeration order.
C14_CompletionOrder ==
  /\ [][\A i \in DOMAIN pc :
          (pc[i] = "running" /\ pc'[i] \in {"fulfilled", "rejected"}) =>
            /\ Len(reporter'.results) > Len(reporter.results)
            /\ SubSeq(reporter'.results, 1, Len(reporter.results)) = reporter.results
            /\ \A k \in Len(reporter.results) + 1 .. Len(reporter'.results) :
                  reporter'.results[k].index = i]_vars
  /\ [](phase = "returned" /\ getConcurrency = 1 =>
          Indices(report[1].results) = [k \in 1..imageFiles |-> k])

\* A report of a run with concurrency 1 over several files of different
\* outcomes.
C14_Witness ==
  /\ phase = "returned"
  /\ getConcurrency = 1
  /\ imageFiles >= 3
  /\ FailedItems # {}
  /\ SkippedItems # {}
  /\ Indices(report[1].results) = [k \in 1..imageFiles |-> k]

\* ---------------------------------------------------------------- validation
\* Files whose encode succeeds and whose output fails quality validation,
\* under the configuration of this processor.
LowQualityItems ==
  {i \in 1..Len(env.files) :
     WritesOutput(env.files[i]) /\ ~QualityValidation(env.files[i]).isValid}

\* Files whose processImage result is success.
GoodItems == {i \in 1..Len(env.files) : ProcessImage(env.files[i]) = "success"}

\* C17: an item whose encode succeeds and whose quality validation answers
\* isValid=false is reported as failed with the validation issues joined as
\* its error message, its output file stays in place, and in the returned
\* report it is counted in failedConversions and left out of
\* totalSizeReduction and averageCompressionRatio.
C17_ValidationFailureIsFailed ==
  /\ \A k \in 1..Len(reporter.results) :
       LET r == reporter.results[k]
       IN (r.index \in LowQualityItems /\ r.origin = "pipeline") =>
            /\ r.status = "failed"
            /\ r.errorMessage =
                 <<"Quality validation failed">> \o QualityIssues(env.files[r.index])
            /\ r.index \in written
  /\ phase = "returned" =>
       /\ report[1].failedConversions >= Cardinality(LowQualityItems)
       /\ report[1].failedConversions = Cardinality(FailedItems)
       /\ report[1].successfulConversions = Cardinality(GoodItems)
       /\ report[1].totalSizeReduction =
            Cardinality(GoodItems)
              * (EncodedSizes("good").originalSize - EncodedSizes("good").optimizedSize)
       /\ report[1].averageCompressionRatio =
            (IF GoodItems = {} THEN 0 ELSE convertToWebP("good", OptimalQuality("good")).compressionRatio)

\* A returned report over a file that fails validation and a file that
\* succeeds.
C17_Witness ==
  /\ phase = "returned"
  /\ LowQualityItems # {}
  /\ GoodItems # {}
  /\ LowQualityItems \subseteq written
  /\ report[1].failedConversions = Cardinality(LowQualityItems)

\* Files whose format validation fails.
InvalidFormatItems == {i \in 1..Len(env.files) : env.files[i] = "unsupported"}

\* Files for which processImage has been called: it has called its first
\* collaborator.
ProcessedItems == {i \in DOMAIN calls : calls[i] # << >>}

OnErrorCount(i) == Cardinality({k \in 1..Len(onErrorCalls) : onErrorCalls[k] = i})

\* C19 (as claimed): every item that has ended failed has triggered
\* options.onError exactly once, whatever continueOnError is.
C19_OnErrorOncePerFailure ==
  \A i \in DOMAIN pc :
    (pc[i] \in {"fulfilled", "rejected"} /\ i \in FailedItems) => OnErrorCount(i) = 1

\* ---------------------------------------------------------------- validator spec
\* Calls of validateOutputQuality: the two files, what the comparison
\* measures, the quality the image was encoded with and the thresholds of
\* the validator.  vin holds the arguments and the two fields of the
\* validator, vout the position of the call and what it has computed so far.
\* Nothing is measured on a file that cannot be decoded: the measured values
\* of such a call are fixed.
VInputs ==
  {in \in [original : FileStates, optimized : FileStates,
           originalSize : {10}, optimizedSize : {4, 10, 13},
           similarityFails : BOOLEAN, colorFails : BOOLEAN, sharpnessFails : BOOLEAN,
           structuralSimilarity : {50, 79, 80, 100},
           colorAccuracy : {50, 100},
           sharpnessRetention : {50, 100},
           targetQuality : {50, 55, 88, 100},
           minimumQualityThreshold : {55, 70, 90},
           maximumSizeIncrease : {MaximumSizeIncreaseTenths}] :
     (in.original # "ok" \/ in.optimized # "ok") =>
        /\ ~in.similarityFails /\ ~in.colorFails /\ ~in.sharpnessFails
        /\ in.structuralSimilarity = 100
        /\ in.colorAccuracy = 100
        /\ in.sharpnessRetention = 100}

VInit ==
  /\ BatchIdle
  /\ cm = BatchProcessorNew(EnvConfig)
  /\ QIdle
  /\ vin \in VInputs
  /\ vout = [done |-> FALSE]

\* validateOutputQuality is called: the two fs.stat calls complete and the
\* call runs to its await of calculateQualityMetrics, or its catch block
\* returns.
ValidateSizes ==
  /\ vout = [done |-> FALSE]
  /\ vout' = validateOutputQualitySizes(vin)
  /\ UNCHANGED <<batchVars, calls, cm, qin, qout, vin>>

\* calculateQualityMetrics resolves and the call runs to its await of
\* validateFileIntegrity.
ValidateScore ==
  /\ ~vout.done
  /\ vout # [done |-> FALSE]
  /\ vout.awaiting = "calculateQualityMetrics"
  /\ vout' = validateOutputQualityScore(vin, vout)
  /\ UNCHANGED <<batchVars, calls, cm, qin, qout, vin>>

\* validateFileIntegrity resolves and the call returns.
ValidateIntegrity ==
  /\ ~vout.done
  /\ vout # [done |-> FALSE]
  /\ vout.awaiting = "validateFileIntegrity"
  /\ vout' = validateOutputQualityIntegrity(vin, vout)
  /\ UNCHANGED <<batchVars, calls, cm, qin, qout, vin>>

\* QualityValidator.updateThresholds(minimumQuality?, maximumSizeIncrease?):
\* an argument is << >> when it is not given.  A minimum outside 1..100
\* throws before anything is assigned; a size increase below 1.0 throws
\* after the minimum has been assigned.
updateThresholds(in, minimumQuality, maximumSizeIncrease) ==
  LET minimumThrows ==
        minimumQuality # << >> /\ (minimumQuality[1] < 1 \/ minimumQuality[1] > 100)
      afterMinimum ==
        IF minimumQuality # << >> /\ ~minimumThrows
        THEN [in EXCEPT !.minimumQualityThreshold = minimumQuality[1]]
        ELSE in
  IN IF minimumThrows THEN in
     ELSE IF maximumSizeIncrease # << >> /\ maximumSizeIncrease[1] >= 10
     THEN [afterMinimum EXCEPT !.maximumSizeIncrease = maximumSizeIncrease[1]]
     ELSE afterMinimum

\* Arguments of updateThresholds: absent, rejected and accepted values (the
\* size increase in tenths).
ThresholdUpdates == {<< >>, <<0>>, <<90>>}
SizeIncreaseUpdates == {<< >>, <<9>>, <<15>>}

\* A call of updateThresholds before validateOutputQuality is called or at
\* one of its awaits.
UpdateThresholds(minimumQuality, maximumSizeIncrease) ==
  /\ ~vout.done
  /\ vin' = updateThresholds(vin, minimumQuality, maximumSizeIncrease)
  /\ UNCHANGED <<batchVars, calls, cm, qin, qout, vout>>

VNext ==
  \/ ValidateSizes
  \/ ValidateScore
  \/ ValidateIntegrity
  \/ \E minimumQuality \in ThresholdUpdates, maximumSizeIncrease \in SizeIncreaseUpdates :
       UpdateThresholds(minimumQuality, maximumSizeIncrease)

SpecValidator == VInit /\ [][VNext]_vars

\* Either file of the call is unreadable: it is missing or cannot be decoded.
Unreadable == vin.original # "ok" \/ vin.optimized # "ok"

\* C20 (as claimed): validateOutputQuality raises an error to its caller
\* exactly when the original or the produced file is unreadable.
C20_RaisesIffUnreadable == vout.done => (vout.raised <=> Unreadable)

\* C20 (amended): validateOutputQuality never raises.  When fs.stat fails on
\* the original or on the produced file it returns isValid=false, score 0,
\* meetsThreshold=false and the single issue "Validation failed".  When both
\* files are there and one cannot be decoded it returns a result computed
\* from the sizes and the four estimates, with the file-integrity issue
\* exactly when it is the produced file that cannot be decoded.  In every
\* other case it returns a result computed from the two files, without
\* either issue.
C20_NeverRaises ==
  vout.done =>
    /\ ~vout.raised
    /\ StatFails(vin) =>
         /\ ~vout.isValid
         /\ vout.qualityScore = DoubleFromInt(0)
         /\ ~vout.meetsThreshold
         /\ vout.issues = <<"Validation failed">>
    /\ ~StatFails(vin) =>
         /\ ~Contains(vout.issues, "Validation failed")
         /\ vout.isValid <=> vout.issues = << >>
         /\ vout.originalSize = vin.originalSize
         /\ vout.optimizedSize = vin.optimizedSize
         /\ Contains(vout.issues, "file integrity issue") <=> vin.optimized = "unopenable"
         /\ Unreadable =>
              /\ vout.structuralSimilarity = DefaultStructuralSimilarity
              /\ vout.qualityLoss = DoubleFromInt(DefaultQualityLoss)
              /\ vout.qualityScore =
                   calculateOverallQualityScore(DefaultMetrics, vin.targetQuality)

\* An original that cannot be decoded, beside an intact output encoded at
\* 100: the call returns, and the result is valid, with score 81.5.
C20_Witness ==
  /\ vout.done
  /\ vin.original = "unopenable"
  /\ vin.optimized = "ok"
  /\ vin.targetQuality = 100
  /\ vout.isValid
  /\ vout.qualityScore = DoubleFromRatio(815, 10)

\* Some step of the comparison of the two images fails.
ComparisonFailure ==
  MetadataFails(vin) \/ vin.similarityFails \/ vin.colorFails \/ vin.sharpnessFails

\* 3 * qualityLoss, which is 300 minus the three metrics in percent up to
\* the rounding of the divisions, lies within a thousandth of that number.
QualityLossIsMeanLoss(qualityLoss, structuralSimilarity, colorAccuracy,
                      sharpnessRetention) ==
  LET exact3000 == 1000 * (300 - (structuralSimilarity + colorAccuracy
                                  + sharpnessRetention))
      loss3 == DoubleMul(qualityLoss, DoubleFromInt(3))
  IN /\ DoubleLess(loss3, DoubleFromRatio(exact3000 + 1, 1000))
     /\ exact3000 > 0 => DoubleLess(DoubleFromRatio(exact3000 - 1, 1000), loss3)

\* C21 (as claimed): whichever comparison step fails, the call returns and
\* the metrics it uses are exactly the four estimates 0.8, 0.85, 0.8 and 20.
C21_AllDefaultsOnAnyFailure ==
  (vout.done /\ ~StatFails(vin) /\ ComparisonFailure) =>
    /\ ~vout.raised
    /\ calculateQualityMetrics(vin) = DefaultMetrics
    /\ vout.qualityLoss = DoubleFromInt(DefaultQualityLoss)
    /\ vout.structuralSimilarity = DefaultStructuralSimilarity

\* C21 (amended): whichever comparison step fails, the call returns.  When
\* reading the metadata of either image fails, the metrics are the four
\* estimates 0.8, 0.85, 0.8 and 20.  When only a calculator fails, its
\* metric alone takes its estimate, the others keep their measured values,
\* and qualityLoss is 100 minus the mean of the three in percent.
C21_DefaultsPerFailingStep ==
  (vout.done /\ ~StatFails(vin) /\ ComparisonFailure) =>
    LET m == calculateQualityMetrics(vin)
    IN /\ ~vout.raised
       /\ vout.qualityLoss = m.qualityLoss
       /\ vout.structuralSimilarity = m.structuralSimilarity
       /\ MetadataFails(vin) => m = DefaultMetrics
       /\ ~MetadataFails(vin) =>
            /\ m.structuralSimilarity =
                 (IF vin.similarityFails THEN 80 ELSE vin.structuralSimilarity)
            /\ m.colorAccuracy = (IF vin.colorFails THEN 85 ELSE vin.colorAccuracy)
            /\ m.sharpnessRetention =
                 (IF vin.sharpnessFails THEN 80 ELSE vin.sharpnessRetention)
            /\ QualityLossIsMeanLoss(m.qualityLoss, m.structuralSimilarity,
                                     m.colorAccuracy, m.sharpnessRetention)

\* Only the similarity calculator fails, on two images whose colours and
\* edges agree: the quality loss is 6.67, not the estimate of 20.
C21_Witness ==
  /\ vout.done
  /\ ~Unreadable
  /\ vin.similarityFails /\ ~vin.colorFails /\ ~vin.sharpnessFails
  /\ vin.colorAccuracy = 100 /\ vin.sharpnessRetention = 100
  /\ vout.structuralSimilarity = 80
  /\ DoubleLess(DoubleFromRatio(666, 100), vout.qualityLoss)
  /\ DoubleLess(vout.qualityLoss, DoubleFromRatio(667, 100))

\* C22 (as claimed): for metrics between 0 and 1 and a quality used between
\* 1 and 100 the quality score is at most the quality used; hence a quality
\* used below the minimum threshold gives meetsThreshold=false, a non-empty
\* list of issues and isValid=false.
C22_ScoreAtMostQualityUsed ==
  vout.done =>
    /\ ~DoubleLess(DoubleFromInt(vin.targetQuality), vout.qualityScore)
    /\ (~StatFails(vin) /\ vin.targetQuality < vout.minimumQualityThreshold) =>
         /\ ~vout.meetsThreshold
         /\ vout.issues # << >>
         /\ ~vout.isValid

\* 100 * (targetQuality / 100) as the doubles compute it
QualityUsedRoundTrip(targetQuality) ==
  DoubleMul(DoubleFromInt(100), DoubleFromRatio(targetQuality, 100))

\* C22 (amended): the quality score is at most 100 * (qualityUsed / 100) as
\* computed in doubles, which is the quality used or the double that follows
\* it; hence a quality used below a whole-number minimum threshold (the one
\* in force when the score is compared) gives meetsThreshold=false, a
\* non-empty list of issues and isValid=false, and so does a call whose
\* fs.stat fails.
C22_ScoreWithinRounding ==
  vout.done =>
    /\ ~DoubleLess(QualityUsedRoundTrip(vin.targetQuality), vout.qualityScore)
    /\ ~DoubleLess(DoubleNextUp(DoubleFromInt(vin.targetQuality)),
                   QualityUsedRoundTrip(vin.targetQuality))
    /\ (StatFails(vin) \/ vin.targetQuality < vout.minimumQualityThreshold) =>
         /\ ~vout.meetsThreshold
         /\ vout.issues # << >>
         /\ ~vout.isValid

\* Two identical images encoded at 55 and validated against threshold 70:
\* the score is the double that follows 55 and the threshold is the only
\* issue.
C22_Witness ==
  /\ vout.done
  /\ ~Unreadable
  /\ ~ComparisonFailure
  /\ vin.structuralSimilarity = 100
  /\ vin.colorAccuracy = 100
  /\ vin.sharpnessRetention = 100
  /\ vin.targetQuality = 55
  /\ vout.minimumQualityThreshold = 70
  /\ vout.qualityScore = DoubleNextUp(DoubleFromInt(55))
  /\ vout.issues = <<"below threshold">>

\* ---------------------------------------------------------------- config spec
\* A BatchProcessor from its construction on: the caller passes a partial
\* configuration to the constructor, may call updateConfig, processImage and
\* processDirectory.  The caller's processImage is given the first file of
\* the source directory, whose picture has the characteristics the caller
\* chose; qout holds the call while it is pending (the arguments, the
\* collaborators called so far, the decision of the calculator once it is
\* there, whether the output file is on disk) and the result once it has
\* resolved.  qin is the argument of calculateOptimalQuality in that call.

\* Partial configurations a caller passes to updateConfig.
ConfigUpdates ==
  {[minimum |-> 0], [minimum |-> 80], [concurrency |-> 0], [photo |-> 70]}

\* One image of every content type, and a flat graphic whose adjusted
\* quality (74) is below every minimum used here.
SampleCharacteristics ==
  {[colorComplexity |-> 20, edgeCount |-> 20, hasTransparency |-> FALSE,
    colorDepth |-> 6, aspectRatio |-> 150],
   [colorComplexity |-> 70, edgeCount |-> 30, hasTransparency |-> FALSE,
    colorDepth |-> 8, aspectRatio |-> 150],
   [colorComplexity |-> 20, edgeCount |-> 80, hasTransparency |-> TRUE,
    colorDepth |-> 8, aspectRatio |-> 150],
   [colorComplexity |-> 50, edgeCount |-> 50, hasTransparency |-> FALSE,
    colorDepth |-> 8, aspectRatio |-> 150]}

\* The directories of these runs: one file that decodes and encodes.
\* The configuration of these runs is the argument of Construct.
ConfigEnvs ==
  {e \in Envs : /\ e.sourceExists /\ e.outputSafe /\ ~e.batchErrorListener
                /\ e.concurrency = 1 /\ e.continueOnError
                /\ e.progressConfig = << >>
                /\ Len(e.files) = 1
                /\ e.files[1] = "good"}

ConfigInit ==
  /\ BatchInit
  /\ env \in ConfigEnvs
  /\ cm = NotConstructed
  /\ QIdle
  /\ VIdle

\* new BatchProcessor(customConfig)
Construct(customConfig) ==
  /\ ~cm.constructed
  /\ cm' = BatchProcessorNew(customConfig)
  /\ UNCHANGED <<batchVars, calls, qin, qout, vin, vout>>

\* batchProcessor.updateConfig(updates)
UpdateConfig(updates) ==
  /\ cm.constructed
  /\ cm' = updateConfig(cm, updates)
  /\ UNCHANGED <<batchVars, calls, qin, qout, vin, vout>>

\* BatchProcessor.processImage of processor b on a supported image with
\* characteristics c whose output equals it: the decision of the calculator,
\* the result of convertToWebP for the quality of the decision, and, when
\* that is a success, the answer of validateOutputQuality, which turns the
\* status to failed when it is not valid.
processImageOf(b, c) ==
  LET decision == calculateOptimalQuality(OptimalQualityInput(b, c))
      result == convertToWebP("good", decision.quality)
      qualityValidation ==
        validateOutputQuality(ValidatorInput("good", decision.quality, b.validatorThreshold))
      flipped == result.status = "success" /\ ~qualityValidation.isValid
  IN [done |-> TRUE, quality |-> decision.quality, strategy |-> decision.strategy,
      reasoning |-> decision.reasoning, contentType |-> decision.contentType,
      outputWritten |-> result.status = "success",
      status |-> IF flipped THEN "failed" ELSE result.status,
      errorMessage |-> IF flipped THEN QualityValidationMessage(qualityValidation.issues)
                       ELSE result.errorMessage]

\* processImage is a function of the image and of the minimum its
\* calculator and its validator hold: its result for each of them.
ProcessImageResults ==
  [minimum \in ConstructedMinimums, threshold \in ConstructedMinimums,
   c \in SampleCharacteristics |->
     processImageOf([calculatorMinimum |-> minimum, validatorThreshold |-> threshold], c)]

\* The outputDirectory a caller passes to processImage: the one of the
\* batch, or one of its own.
OutputDirectories == {"out", "own"}

\* The collaborator a call of processImage by the owner of the processor
\* waits for (None: no such call is pending).
ProcessImageAwaits(q) ==
  IF q.done \/ q = [done |-> FALSE] THEN None ELSE q.calls[Len(q.calls)]

\* processImage(imagePath, outputDirectory) is called by the owner of the
\* processor on the first file of the source directory, whose picture has
\* characteristics c; it calls validateImageFile before its first await.
ProcessImageQuality(c, outputDirectory) ==
  /\ cm.constructed
  /\ ProcessImageAwaits(qout) = None
  /\ qout' = [done |-> FALSE, characteristics |-> c, outputDirectory |-> outputDirectory,
              calls |-> <<"validateImageFile">>, outputWritten |-> FALSE]
  /\ qin' = NoInput
  /\ UNCHANGED <<batchVars, calls, cm, vin, vout>>

\* convertToWebP of the pending call: sharp's toFile completes, the output
\* file is on disk, in the output directory of the batch when the call was
\* given that one.
ProcessImageEncodeOutput ==
  /\ ProcessImageAwaits(qout) = "convertToWebP"
  /\ ~qout.outputWritten
  /\ convertToWebP("good", qout.quality).status = "success"
  /\ qout' = [qout EXCEPT !.outputWritten = TRUE]
  /\ written' = IF qout.outputDirectory = env.outputDirectory
                THEN written \cup {1} ELSE written
  /\ UNCHANGED <<env, phase, imageFiles, outputDirEnsured, pc, semaphore, results,
                 processedFiles, reporter, reason, onErrorCalls, report, thrown,
                 qin, cm, calls, vin, vout>>

\* The collaborator the pending call awaits has answered: the file is
\* valid and calculateOptimalQuality is called; or its decision is there
\* (qualityResult) and convertToWebP is called with its quality; or the
\* conversion has failed and processImage returns its result; or the output
\* is written and validateOutputQuality is called; or processImage returns
\* the result with the answer of the validator.
ProcessImageContinue ==
  /\ ProcessImageAwaits(qout) # None
  /\ \E last \in {ProcessImageAwaits(qout)} :
     \E result \in (IF last = "validateImageFile" THEN {qout}
                    ELSE {ProcessImageResults[cm.calculatorMinimum, cm.validatorThreshold,
                                              qout.characteristics]}) :
       IF last = "validateImageFile"
       THEN /\ qin' = OptimalQualityInput(cm, qout.characteristics)
            /\ qout' = [qout EXCEPT !.calls = Append(@, "calculateOptimalQuality")]
       ELSE IF last = "calculateOptimalQuality"
       THEN /\ qout' = [qout EXCEPT !.calls = Append(@, "convertToWebP")]
                         @@ [quality |-> result.quality, contentType |-> result.contentType]
            /\ qin' = qin
       ELSE IF last = "convertToWebP" /\ result.outputWritten
       THEN /\ qout.outputWritten
            /\ qout' = [qout EXCEPT !.calls = Append(@, "validateOutputQuality")]
            /\ qin' = qin
       ELSE /\ qout' = [done |-> TRUE, quality |-> result.quality,
                        strategy |-> result.strategy, reasoning |-> result.reasoning,
                        contentType |-> result.contentType,
                        outputWritten |-> result.outputWritten,
                        status |-> result.status, errorMessage |-> result.errorMessage]
            /\ qin' = qin
  /\ UNCHANGED <<batchVars, calls, cm, vin, vout>>

ConfigNext ==
  \/ \E customConfig \in CustomConfigs : Construct(customConfig)
  \/ \E updates \in ConfigUpdates : UpdateConfig(updates)
  \/ \E c \in SampleCharacteristics, outputDirectory \in OutputDirectories :
       ProcessImageQuality(c, outputDirectory)
  \/ ProcessImageEncodeOutput
  \/ ProcessImageContinue
  \/ Next

SpecConfig == ConfigInit /\ [][ConfigNext]_vars

\* C11 (as claimed): the constructor of BatchProcessor rejects a
\* configuration whose concurrency is below 1 or whose minimum quality is
\* outside 1..100: no constructed processor holds such a value in its
\* configuration or in its quality calculator, processDirectory never
\* builds its limiter from one, and processImage never hands one to the
\* calculator.
C11_InvalidConfigRejected ==
  [][/\ (~cm.constructed /\ cm'.constructed) =>
          /\ cm'.config.concurrency >= 1
          /\ cm'.config.minimum \in MinQualityLow..MinQualityHigh
          /\ cm'.calculatorMinimum \in MinQualityLow..MinQualityHigh
     /\ (phase = "scanned" /\ phase' = "processing") => getConcurrency >= 1
     /\ (ProcessImageAwaits(qout) = "validateImageFile"
         /\ ProcessImageAwaits(qout') = "calculateOptimalQuality") =>
          qin'.minimumQuality \in MinQualityLow..MinQualityHigh]_vars

\* C15 (as claimed): when the configuration sets a quality for a content
\* type to a value of its own, processImage hands that value to the encoder
\* for every image classified with that content type.  The configuration
\* is the one in force when processImage reads it, in the turn that calls
\* convertToWebP.
C15_ConfiguredQualityUsed ==
  [][(/\ ProcessImageAwaits(qout) = "calculateOptimalQuality"
      /\ ProcessImageAwaits(qout') = "convertToWebP"
      /\ cm.config[qout'.contentType] # DEFAULT_CONFIG[qout'.contentType])
       => qout'.quality = cm.config[qout'.contentType]]_vars

\* C28: once updateConfig has changed quality.minimum (and not thrown), the
\* calculator and the validator hold the new minimum when processImage is
\* called, and the call uses what they hold: the calculator is given its
\* floor and hands a quality at or above it to the encoder.
C28_UpdatedMinimumApplied ==
  [][/\ (/\ cm.error = << >>
         /\ ProcessImageAwaits(qout) = None
         /\ ProcessImageAwaits(qout') = "validateImageFile") =>
          /\ cm.calculatorMinimum = cm.config.minimum
          /\ cm.validatorThreshold = cm.config.minimum
     /\ (ProcessImageAwaits(qout) = "validateImageFile"
         /\ ProcessImageAwaits(qout') = "calculateOptimalQuality") =>
          qin'.minimumQuality = cm.calculatorMinimum
     /\ (ProcessImageAwaits(qout) = "calculateOptimalQuality"
         /\ ProcessImageAwaits(qout') = "convertToWebP") =>
          qout'.quality >= qin.minimumQuality]_vars

\* C29: when ConfigManager.updateConfig throws a validation error, the
\* stored configuration is the one before the call.
C29_FailedUpdateKeepsConfig ==
  [][(cm.constructed /\ cm' # cm /\ cm'.error # << >>) => cm'.config = cm.config]_vars

\* ---------------------------------------------------------------- CLI
\* main, catch block: an error is a validation/configuration error when its
\* message contains "CLI argument parsing failed", "Configuration Error",
\* "Invalid source directory", "Quality must be" or "Output directory
\* cannot".  The messages of processDirectory ("Source directory does not
\* exist", "Output directory contains files that might be overwritten", "No
\* supported image files found", an item's error message, Node's "Unhandled
\* error", each possibly behind "Batch processing failed: ") contain none.
ValidationFragments ==
  {"CLI argument parsing failed", "Configuration Error", "Invalid source directory",
   "Quality must be", "Output directory cannot"}

\* error.message.includes(fragment), for one of the five fragments: the
\* fixed text of the message has it (parseArguments), or the directory the
\* message ends with has it in its name.  A directory whose name contains a
\* fragment is written as that fragment.
IsValidationMessage(err) ==
  err.kind = "cliArguments" \/ err.path \in ValidationFragments

\* The runs of the command line: main registers no 'error' listener on the
\* BatchProcessor, parseArguments has checked that the source directory
\* exists, the directories are named by the user, and --no-progress decides
\* progressConfig.enableConsoleOutput.
CliEnvs ==
  [files : UNION {[1..n -> FileKinds] : n \in 0..MaxFiles},
   concurrency : 1..MaxConcurrency,
   continueOnError : BOOLEAN,
   batchErrorListener : {FALSE},
   sourceExists : {TRUE},
   outputSafe : BOOLEAN,
   sourceDirectory : {"src", "Quality must be"},
   outputDirectory : {"out", "Output directory cannot"},
   progressConfig : {[enableConsoleOutput |-> TRUE], [enableConsoleOutput |-> FALSE]}]

CliInit ==
  /\ env \in CliEnvs
  /\ BatchStart
  /\ cm = BatchProcessorNew(EnvConfig)
  /\ QIdle
  /\ VIdle

SpecCli == CliInit /\ [][Next]_vars

\* main registers no 'error' listener on the BatchProcessor, and
\* parseArguments has checked that the source directory exists.
CliRun == ~env.batchErrorListener /\ env.sourceExists

\* main: the code passed to process.exit once processDirectory has settled.
ExitCode ==
  IF phase = "returned"
  THEN (IF report[1].failedConversions > 0 THEN 1 ELSE 0)
  ELSE (IF IsValidationMessage(thrown[1]) THEN 2 ELSE 1)

\* C16 (as claimed): the exit code is 0 exactly when every enumerated item
\* ended success, 2 when the run failed validation of its options, and 1
\* when it failed while processing.
C16_ExitCodes ==
  (CliRun /\ phase \in {"returned", "failed"}) =>
    /\ ExitCode = 0 <=>
         /\ phase = "returned"
         /\ \A k \in 1..Len(report[1].results) : report[1].results[k].status = "success"
    /\ (phase = "failed" /\ thrown[1].kind = "options") => ExitCode = 2
    /\ (phase = "failed" /\ thrown[1].kind # "options") => ExitCode = 1

====
